---- MODULE Spec2Model ----
(***************************************************************************)
(* Two-tier cache-aside orchestrator (pkg/cache-manager MultiLevelCache)   *)
(* with its L1 (BigCache wrapper) and L2 (Redis wrapper) tier stores and   *)
(* the JSON serializer.                                                    *)
(*                                                                         *)
(* Conventions                                                             *)
(*   - a Go error is a sequence of strings, <<>> is the nil error          *)
(*   - a *bool is a sequence of at most one BOOLEAN, <<>> is the nil ptr   *)
(*   - a []byte is a sequence of small integers                            *)
(*   - a time.Duration is an integer number of minutes; the wall clock     *)
(*     `now` counts minutes                                                *)
(*   - a RawCache that reports an error did not change what it stores      *)
(***************************************************************************)
EXTENDS Integers, Sequences, FiniteSets, TLC

\* written is a history variable of the timed machine (SpecTimed): the instant,
\* TTLs and value of the last Set that wrote both tiers, and the instant of the
\* last warmup write since. The untimed machine (Spec) leaves it untouched.
\* inflight is the state of the calls in progress in the concurrent machine
\* (SpecConc): per goroutine, the call it is in, its position and its locals.
\* The sequential machines run every call in one step and leave it untouched.
VARIABLES m, l1s, l2s, now, last, calls, written, inflight, stats, hits, snap

vars == <<m, l1s, l2s, now, last, calls, written, inflight, stats, hits, snap>>

----------------------------------------------------------------------------
(* Program constants *)

ModeBothLevels == 0
ModeL1Only == 1
ModeL2Only == 2

DefaultTTL == 5

NilErr == <<>>
NilPtr == <<>>

BoolPtr(b) == <<b>>

ErrSerializerMissing == <<"serializer is required">>
ErrL1OnlyNeedsL1 == <<"ModeL1Only requires L1 cache to be configured">>
ErrL2OnlyNeedsL2 == <<"ModeL2Only requires L2 cache to be configured">>
ErrBothNeedsBoth == <<"ModeBothLevels requires both L1 and L2 caches to be configured">>
ErrDefaultNeedsBoth == <<"ModeBothLevels (default) requires both L1 and L2 caches to be configured">>
ErrOnlyL1 == <<"only L1 configured but mode is not ModeL1Only; set mode to ModeL1Only or configure L2">>
ErrOnlyL2 == <<"only L2 configured but mode is not ModeL2Only; set mode to ModeL2Only or configure L1">>
ErrNotInitialized == <<"cache not initialized">>
ErrOverridesNotAllowed == <<"level overrides not allowed: both L1 and L2 must be configured to use TargetL1/TargetL2 options">>
ErrGetNoTarget == <<"Get operation requires at least one cache level to be checked">>
ErrSetNoTarget == <<"Set operation requires at least one cache level to be targeted">>
ErrL1NotConfigured == <<"L1 target requested but L1 cache not configured">>
ErrL2NotConfigured == <<"L2 target requested but L2 cache not configured">>
ErrMarshal == <<"json: unsupported type">>
ErrUnmarshal == <<"json: cannot unmarshal">>

----------------------------------------------------------------------------
(* Inputs *)

Keys == {"k1"}

\* Application values: two strings, one number, one value json cannot encode.
\* Every Get decodes into a *string.
StrA == [kind |-> "str", v |-> <<97>>]
StrB == [kind |-> "str", v |-> <<98>>]
Num7 == [kind |-> "int", v |-> <<55>>]
Chan == [kind |-> "chan", v |-> <<>>]
NoValue == [kind |-> "none", v |-> <<>>]

Values == {StrA, StrB, Num7, Chan}

\* Errors a tier store can report for a call (NilErr: the call succeeds).
ErrL1 == <<"L1 unavailable">>
ErrL2 == <<"L2 unavailable">>
L1Outcomes == {NilErr, ErrL1}
L2Outcomes == {NilErr, ErrL2}

Targets == {NilPtr, BoolPtr(TRUE), BoolPtr(FALSE)}
CallTTLs == {<<1, 0>>, <<0, 2>>, <<-1, 1>>}

NoOptions == [TargetL1 |-> NilPtr, TargetL2 |-> NilPtr, L1TTL |-> 0, L2TTL |-> 0]

TargetOptions == {[TargetL1 |-> t1, TargetL2 |-> t2, L1TTL |-> 0, L2TTL |-> 0] :
                    t1 \in Targets, t2 \in Targets}
TTLOptions == {[TargetL1 |-> NilPtr, TargetL2 |-> NilPtr, L1TTL |-> t[1], L2TTL |-> t[2]] :
                    t \in CallTTLs}
CacheOptions == TargetOptions \cup TTLOptions

\* The calls made: every target override with every outcome of the tier
\* calls, every TTL override, every kind of value.
SetInputs ==
    {[value |-> v, opts |-> o, f1 |-> f1, f2 |-> f2] :
        v \in {StrA, StrB}, o \in TargetOptions, f1 \in L1Outcomes, f2 \in L2Outcomes}
    \cup {[value |-> StrA, opts |-> o, f1 |-> NilErr, f2 |-> NilErr] : o \in TTLOptions}
    \cup {[value |-> v, opts |-> NoOptions, f1 |-> NilErr, f2 |-> NilErr] : v \in {Num7, Chan}}
    \cup {[value |-> Chan, opts |-> o, f1 |-> NilErr, f2 |-> NilErr] : o \in TargetOptions}
    \cup {[value |-> Num7, opts |-> [NoOptions EXCEPT !.TargetL1 = BoolPtr(FALSE)],
            f1 |-> NilErr, f2 |-> NilErr]}

GetFaults == {<<NilErr, NilErr, NilErr>>, <<ErrL1, NilErr, NilErr>>,
              <<NilErr, ErrL2, NilErr>>, <<NilErr, NilErr, ErrL1>>}

GetInputs ==
    {[opts |-> o, g1 |-> f[1], g2 |-> f[2], w1 |-> f[3]] : o \in TargetOptions, f \in GetFaults}
    \cup {[opts |-> o, g1 |-> NilErr, g2 |-> NilErr, w1 |-> NilErr] : o \in TTLOptions}

\* Mode 7 is a value outside the enum.
CfgModes == {ModeBothLevels, ModeL1Only, ModeL2Only, 7}
CfgTTLs == {<<0, -1, 0>>, <<1, 2, 3>>, <<-1, 2, 0>>}

MultiLevelConfig == {[Mode |-> md, WarmupTTL |-> t[1], L1DefaultTTL |-> t[2], L2DefaultTTL |-> t[3]] :
                        md \in CfgModes, t \in CfgTTLs}

----------------------------------------------------------------------------
(* Serializer: encoding/json on strings and numbers *)

Quote == 34

Marshal(value) ==
    CASE value.kind = "str" -> [data |-> <<Quote>> \o value.v \o <<Quote>>, err |-> NilErr]
      [] value.kind = "int" -> [data |-> value.v, err |-> NilErr]
      [] OTHER -> [data |-> <<>>, err |-> ErrMarshal]

\* json.Unmarshal(data, dest) with dest a *string.
Unmarshal(data) ==
    IF Len(data) >= 2 /\ data[1] = Quote /\ data[Len(data)] = Quote
    THEN [out |-> [kind |-> "str", v |-> SubSeq(data, 2, Len(data) - 1)], err |-> NilErr]
    ELSE [out |-> NoValue, err |-> ErrUnmarshal]

----------------------------------------------------------------------------
(* Maps *)

MapPut(s, key, e) == [k \in (DOMAIN s) \cup {key} |-> IF k = key THEN e ELSE s[k]]
MapDel(s, key) == [k \in (DOMAIN s) \ {key} |-> s[k]]
EmptyMap == [k \in {} |-> <<>>]

----------------------------------------------------------------------------
(* L1 tier: BigCache wrapper. A stored record is the expiry instant        *)
(* (one word standing for the 8-byte little-endian prefix) followed by the *)
(* payload bytes.                                                          *)

\* Mutant: every record is stored with the zero expiry.
encodeEntry_ZeroExpiry(payload, ttl, t) == <<0>> \o payload

encodeEntry(payload, ttl, t) ==
    LET expiry == IF ttl > 0 THEN t + ttl ELSE 0
    IN  <<expiry>> \o payload

\* Mutant: a record is expired from its expiry instant on, not after it.
decodeEntry_ExpiredAtInstant(raw, t) ==
    IF Len(raw) < 1
    THEN [payload |-> <<>>, ok |-> FALSE]
    ELSE LET expiry == raw[1]
         IN  IF expiry > 0 /\ t >= expiry
             THEN [payload |-> <<>>, ok |-> FALSE]
             ELSE [payload |-> SubSeq(raw, 2, Len(raw)), ok |-> TRUE]

decodeEntry(raw, t) ==
    IF Len(raw) < 1
    THEN [payload |-> <<>>, ok |-> FALSE]
    ELSE LET expiry == raw[1]
         IN  IF expiry > 0 /\ t > expiry
             THEN [payload |-> <<>>, ok |-> FALSE]
             ELSE [payload |-> SubSeq(raw, 2, Len(raw)), ok |-> TRUE]

\* f is the error of the underlying cache.Get other than ErrEntryNotFound.
BigCacheGet(s, key, t, f) ==
    IF f # NilErr
    THEN [data |-> <<>>, found |-> FALSE, err |-> f, store |-> s]
    ELSE IF key \notin DOMAIN s
    THEN [data |-> <<>>, found |-> FALSE, err |-> NilErr, store |-> s]
    ELSE LET d == decodeEntry(s[key], t)
         IN  IF ~d.ok
             THEN [data |-> <<>>, found |-> FALSE, err |-> NilErr, store |-> MapDel(s, key)]
             ELSE [data |-> d.payload, found |-> TRUE, err |-> NilErr, store |-> s]

\* Mutant: the payload is stored without its expiry prefix.
BigCacheSet_NoPrefix(s, key, value, ttl, t, f) ==
    IF f # NilErr
    THEN [err |-> f, store |-> s]
    ELSE [err |-> NilErr, store |-> MapPut(s, key, value)]

BigCacheSet(s, key, value, ttl, t, f) ==
    IF f # NilErr
    THEN [err |-> f, store |-> s]
    ELSE [err |-> NilErr, store |-> MapPut(s, key, encodeEntry(value, ttl, t))]

BigCacheDelete(s, key, f) ==
    IF f # NilErr
    THEN [err |-> f, store |-> s]
    ELSE [err |-> NilErr, store |-> MapDel(s, key)]

----------------------------------------------------------------------------
(* L2 tier: Redis wrapper. The server keeps value and expiry instant and   *)
(* stops serving a key once its time to live has elapsed.                  *)

\* Mutant: the server never expires a key.
RedisLive_NoExpiry(s, key, t) == key \in DOMAIN s

RedisLive(s, key, t) ==
    key \in DOMAIN s /\ (s[key].expireAt = 0 \/ t < s[key].expireAt)

RedisGet(s, key, t, f) ==
    IF f # NilErr
    THEN [data |-> <<>>, found |-> FALSE, err |-> f]
    ELSE IF ~RedisLive(s, key, t)
    THEN [data |-> <<>>, found |-> FALSE, err |-> NilErr]
    ELSE [data |-> s[key].value, found |-> TRUE, err |-> NilErr]

RedisSet(s, key, value, ttl, t, f) ==
    IF f # NilErr
    THEN [err |-> f, store |-> s]
    ELSE [err |-> NilErr,
          store |-> MapPut(s, key, [value |-> value,
                                    expireAt |-> IF ttl > 0 THEN t + ttl ELSE 0])]

RedisDelete(s, key, f) ==
    IF f # NilErr
    THEN [err |-> f, store |-> s]
    ELSE [err |-> NilErr, store |-> MapDel(s, key)]

----------------------------------------------------------------------------
(* Orchestrator: construction *)

\* The nil *MultiLevelCache.
NilCache ==
    [nil |-> TRUE, l1 |-> FALSE, l2 |-> FALSE, serializer |-> FALSE,
     mode |-> ModeBothLevels, allowOverrides |-> FALSE,
     warmupTTL |-> 0, l1DefaultTTL |-> 0, l2DefaultTTL |-> 0]

\* Mutant: the warmup TTL of the configuration is taken as given.
NewMultiLevelCache_WarmupAsGiven(l1, l2, serializer, cfg) ==
    LET fail(e) == [m |-> NilCache, err |-> e]
        known == cfg.Mode \in {ModeL1Only, ModeL2Only, ModeBothLevels}
        mode == IF known THEN cfg.Mode ELSE ModeBothLevels
        l1TTL == IF cfg.L1DefaultTTL <= 0 THEN DefaultTTL ELSE cfg.L1DefaultTTL
        l2TTL == IF cfg.L2DefaultTTL <= 0 THEN DefaultTTL ELSE cfg.L2DefaultTTL
    IN  IF ~serializer THEN fail(ErrSerializerMissing)
        ELSE IF cfg.Mode = ModeL1Only /\ ~l1 THEN fail(ErrL1OnlyNeedsL1)
        ELSE IF cfg.Mode = ModeL2Only /\ ~l2 THEN fail(ErrL2OnlyNeedsL2)
        ELSE IF cfg.Mode = ModeBothLevels /\ (~l1 \/ ~l2) THEN fail(ErrBothNeedsBoth)
        ELSE IF ~known /\ (~l1 \/ ~l2) THEN fail(ErrDefaultNeedsBoth)
        ELSE IF l1 /\ ~l2 /\ mode # ModeL1Only THEN fail(ErrOnlyL1)
        ELSE IF ~l1 /\ l2 /\ mode # ModeL2Only THEN fail(ErrOnlyL2)
        ELSE [m |-> [nil |-> FALSE, l1 |-> l1, l2 |-> l2, serializer |-> serializer,
                     mode |-> mode, allowOverrides |-> l1 /\ l2,
                     warmupTTL |-> cfg.WarmupTTL, l1DefaultTTL |-> l1TTL,
                     l2DefaultTTL |-> l2TTL],
              err |-> NilErr]

\* Mutant: the mode is not validated against the stores supplied; one store
\* and a serializer are enough.
NewMultiLevelCache_PresenceOnly(l1, l2, serializer, cfg) ==
    LET known == cfg.Mode \in {ModeL1Only, ModeL2Only, ModeBothLevels}
        mode == IF known THEN cfg.Mode ELSE ModeBothLevels
        warmTTL == IF cfg.WarmupTTL <= 0 THEN DefaultTTL ELSE cfg.WarmupTTL
        l1TTL == IF cfg.L1DefaultTTL <= 0 THEN DefaultTTL ELSE cfg.L1DefaultTTL
        l2TTL == IF cfg.L2DefaultTTL <= 0 THEN DefaultTTL ELSE cfg.L2DefaultTTL
    IN  IF ~serializer THEN [m |-> NilCache, err |-> ErrSerializerMissing]
        ELSE IF ~l1 /\ ~l2 THEN [m |-> NilCache, err |-> ErrBothNeedsBoth]
        ELSE [m |-> [nil |-> FALSE, l1 |-> l1, l2 |-> l2, serializer |-> serializer,
                     mode |-> mode, allowOverrides |-> l1 /\ l2,
                     warmupTTL |-> warmTTL, l1DefaultTTL |-> l1TTL, l2DefaultTTL |-> l2TTL],
              err |-> NilErr]

\* Mutant: overrides are allowed as soon as one store is configured.
NewMultiLevelCache_OverridesWithAnyTier(l1, l2, serializer, cfg) ==
    LET fail(e) == [m |-> NilCache, err |-> e]
        known == cfg.Mode \in {ModeL1Only, ModeL2Only, ModeBothLevels}
        mode == IF known THEN cfg.Mode ELSE ModeBothLevels
        warmTTL == IF cfg.WarmupTTL <= 0 THEN DefaultTTL ELSE cfg.WarmupTTL
        l1TTL == IF cfg.L1DefaultTTL <= 0 THEN DefaultTTL ELSE cfg.L1DefaultTTL
        l2TTL == IF cfg.L2DefaultTTL <= 0 THEN DefaultTTL ELSE cfg.L2DefaultTTL
    IN  IF ~serializer THEN fail(ErrSerializerMissing)
        ELSE IF cfg.Mode = ModeL1Only /\ ~l1 THEN fail(ErrL1OnlyNeedsL1)
        ELSE IF cfg.Mode = ModeL2Only /\ ~l2 THEN fail(ErrL2OnlyNeedsL2)
        ELSE IF cfg.Mode = ModeBothLevels /\ (~l1 \/ ~l2) THEN fail(ErrBothNeedsBoth)
        ELSE IF ~known /\ (~l1 \/ ~l2) THEN fail(ErrDefaultNeedsBoth)
        ELSE IF l1 /\ ~l2 /\ mode # ModeL1Only THEN fail(ErrOnlyL1)
        ELSE IF ~l1 /\ l2 /\ mode # ModeL2Only THEN fail(ErrOnlyL2)
        ELSE [m |-> [nil |-> FALSE, l1 |-> l1, l2 |-> l2, serializer |-> serializer,
                     mode |-> mode, allowOverrides |-> l1 \/ l2,
                     warmupTTL |-> warmTTL, l1DefaultTTL |-> l1TTL, l2DefaultTTL |-> l2TTL],
              err |-> NilErr]

\* Mutant: ModeL1Only is accepted without an L1 tier.
NewMultiLevelCache_L1OnlyUnchecked(l1, l2, serializer, cfg) ==
    LET fail(e) == [m |-> NilCache, err |-> e]
        known == cfg.Mode \in {ModeL1Only, ModeL2Only, ModeBothLevels}
        mode == IF known THEN cfg.Mode ELSE ModeBothLevels
        allowOverrides == l1 /\ l2
        warmTTL == IF cfg.WarmupTTL <= 0 THEN DefaultTTL ELSE cfg.WarmupTTL
        l1TTL == IF cfg.L1DefaultTTL <= 0 THEN DefaultTTL ELSE cfg.L1DefaultTTL
        l2TTL == IF cfg.L2DefaultTTL <= 0 THEN DefaultTTL ELSE cfg.L2DefaultTTL
    IN  IF ~serializer THEN fail(ErrSerializerMissing)
        ELSE IF cfg.Mode = ModeL2Only /\ ~l2 THEN fail(ErrL2OnlyNeedsL2)
        ELSE IF cfg.Mode = ModeBothLevels /\ (~l1 \/ ~l2) THEN fail(ErrBothNeedsBoth)
        ELSE IF ~known /\ (~l1 \/ ~l2) THEN fail(ErrDefaultNeedsBoth)
        ELSE IF l1 /\ ~l2 /\ mode # ModeL1Only THEN fail(ErrOnlyL1)
        ELSE IF ~l1 /\ l2 /\ mode # ModeL2Only THEN fail(ErrOnlyL2)
        ELSE [m |-> [nil |-> FALSE, l1 |-> l1, l2 |-> l2, serializer |-> serializer,
                     mode |-> mode, allowOverrides |-> allowOverrides,
                     warmupTTL |-> warmTTL, l1DefaultTTL |-> l1TTL, l2DefaultTTL |-> l2TTL],
              err |-> NilErr]

\* l1, l2, serializer: TRUE when the argument is not nil.
NewMultiLevelCache(l1, l2, serializer, cfg) ==
    LET fail(e) == [m |-> NilCache, err |-> e]
        known == cfg.Mode \in {ModeL1Only, ModeL2Only, ModeBothLevels}
        mode == IF known THEN cfg.Mode ELSE ModeBothLevels
        allowOverrides == l1 /\ l2
        warmTTL == IF cfg.WarmupTTL <= 0 THEN DefaultTTL ELSE cfg.WarmupTTL
        l1TTL == IF cfg.L1DefaultTTL <= 0 THEN DefaultTTL ELSE cfg.L1DefaultTTL
        l2TTL == IF cfg.L2DefaultTTL <= 0 THEN DefaultTTL ELSE cfg.L2DefaultTTL
    IN  IF ~serializer THEN fail(ErrSerializerMissing)
        ELSE IF cfg.Mode = ModeL1Only /\ ~l1 THEN fail(ErrL1OnlyNeedsL1)
        ELSE IF cfg.Mode = ModeL2Only /\ ~l2 THEN fail(ErrL2OnlyNeedsL2)
        ELSE IF cfg.Mode = ModeBothLevels /\ (~l1 \/ ~l2) THEN fail(ErrBothNeedsBoth)
        ELSE IF ~known /\ (~l1 \/ ~l2) THEN fail(ErrDefaultNeedsBoth)
        ELSE IF l1 /\ ~l2 /\ mode # ModeL1Only THEN fail(ErrOnlyL1)
        ELSE IF ~l1 /\ l2 /\ mode # ModeL2Only THEN fail(ErrOnlyL2)
        ELSE [m |-> [nil |-> FALSE, l1 |-> l1, l2 |-> l2, serializer |-> serializer,
                     mode |-> mode, allowOverrides |-> allowOverrides,
                     warmupTTL |-> warmTTL, l1DefaultTTL |-> l1TTL, l2DefaultTTL |-> l2TTL],
              err |-> NilErr]

----------------------------------------------------------------------------
(* Orchestrator: policy helpers *)

\* Mutant: the L2 TTL is resolved from the call's L1TTL.
normalize_L1ForBoth(o, defaultL1, defaultL2) ==
    LET l1 == IF o.L1TTL <= 0 THEN defaultL1 ELSE o.L1TTL
        l2 == IF o.L1TTL <= 0 THEN defaultL2 ELSE o.L1TTL
    IN  <<l1, l2>>

normalize(o, defaultL1, defaultL2) ==
    LET l1 == IF o.L1TTL <= 0 THEN defaultL1 ELSE o.L1TTL
        l2 == IF o.L2TTL <= 0 THEN defaultL2 ELSE o.L2TTL
    IN  <<l1, l2>>

\* Mutant: an override can switch a tier on but not off.
applyEndpointLevelOverrides_OnlyOn(opts, checkL1, checkL2) ==
    << IF opts.TargetL1 # NilPtr /\ opts.TargetL1[1] THEN TRUE ELSE checkL1,
       IF opts.TargetL2 # NilPtr /\ opts.TargetL2[1] THEN TRUE ELSE checkL2 >>

applyEndpointLevelOverrides(opts, checkL1, checkL2) ==
    << IF opts.TargetL1 # NilPtr THEN opts.TargetL1[1] ELSE checkL1,
       IF opts.TargetL2 # NilPtr THEN opts.TargetL2[1] ELSE checkL2 >>

\* Mutant: ModeL2Only also selects L1.
determineCacheLevel_L2OnlyAlsoL1(mode) ==
    CASE mode = ModeBothLevels -> <<TRUE, TRUE>>
      [] mode = ModeL1Only -> <<TRUE, FALSE>>
      [] mode = ModeL2Only -> <<TRUE, TRUE>>
      [] OTHER -> <<FALSE, FALSE>>

\* Mutant: ModeL1Only also selects L2.
determineCacheLevel_L1OnlyAlsoL2(mode) ==
    CASE mode = ModeBothLevels -> <<TRUE, TRUE>>
      [] mode = ModeL1Only -> <<TRUE, TRUE>>
      [] mode = ModeL2Only -> <<FALSE, TRUE>>
      [] OTHER -> <<FALSE, FALSE>>

determineCacheLevel(mode) ==
    CASE mode = ModeBothLevels -> <<TRUE, TRUE>>
      [] mode = ModeL1Only -> <<TRUE, FALSE>>
      [] mode = ModeL2Only -> <<FALSE, TRUE>>
      [] OTHER -> <<FALSE, FALSE>>

\* Mutant: only the L1 flag is looked at.
OverrideRejected_L1FlagOnly(inst, opts) ==
    ~inst.allowOverrides /\ opts.TargetL1 # NilPtr

\* The override-permission check shared by Get and Set.
OverrideRejected(inst, opts) ==
    ~inst.allowOverrides /\ (opts.TargetL1 # NilPtr \/ opts.TargetL2 # NilPtr)

\* One call made to a tier store.
Call(tier, fn, key, data, ttl, err) ==
    [tier |-> tier, fn |-> fn, key |-> key, data |-> data, ttl |-> ttl, err |-> err]

----------------------------------------------------------------------------
(* Orchestrator: Get *)

\* Mutant: warmup whenever L1 is configured, whatever the mode.
ShouldWarm_AnyMode(inst, checkL1, opts) ==
    inst.l1 /\ opts.TargetL1 = NilPtr

\* Mutant: warmup also when the call set its L1 flag.
ShouldWarm_IgnoresOverride(inst, checkL1, opts) ==
    checkL1 /\ inst.l1 /\ inst.mode = ModeBothLevels

\* The warmup condition.
ShouldWarm(inst, checkL1, opts) ==
    checkL1 /\ inst.l1 /\ inst.mode = ModeBothLevels /\ opts.TargetL1 = NilPtr

\* Mutant: an L1 read error is treated as a miss and the Get goes on to L2.
GetRun_L1ErrorFallsThrough(inst, s1, s2, t, key, opts, g1, g2, w1) ==
    LET res(found, out, err, st1, cl) ==
            [found |-> found, out |-> out, err |-> err, l1s |-> st1, l2s |-> s2, calls |-> cl]
        lv == applyEndpointLevelOverrides(opts, determineCacheLevel(inst.mode)[1],
                                                determineCacheLevel(inst.mode)[2])
        checkL1 == lv[1]
        checkL2 == lv[2]
        readL1 == checkL1 /\ inst.l1
        r1 == IF readL1 THEN BigCacheGet(s1, key, t, g1)
              ELSE [data |-> <<>>, found |-> FALSE, err |-> NilErr, store |-> s1]
        c1 == IF readL1 THEN <<Call("L1", "Get", key, <<>>, 0, r1.err)>> ELSE <<>>
        u1 == Unmarshal(r1.data)
        r2 == RedisGet(s2, key, t, g2)
        c2 == c1 \o <<Call("L2", "Get", key, <<>>, 0, r2.err)>>
        u2 == Unmarshal(r2.data)
        w == BigCacheSet(r1.store, key, r2.data, inst.warmupTTL, t, w1)
        c3 == c2 \o <<Call("L1", "Set", key, r2.data, inst.warmupTTL, w.err)>>
    IN  IF inst.nil THEN res(FALSE, NoValue, ErrNotInitialized, s1, <<>>)
        ELSE IF OverrideRejected(inst, opts) THEN res(FALSE, NoValue, ErrOverridesNotAllowed, s1, <<>>)
        ELSE IF ~checkL1 /\ ~checkL2 THEN res(FALSE, NoValue, ErrGetNoTarget, s1, <<>>)
        ELSE IF checkL1 /\ ~inst.l1 THEN res(FALSE, NoValue, ErrL1NotConfigured, s1, <<>>)
        ELSE IF checkL2 /\ ~inst.l2 THEN res(FALSE, NoValue, ErrL2NotConfigured, s1, <<>>)
        ELSE IF r1.found
             THEN IF u1.err # NilErr
                  THEN res(FALSE, NoValue, u1.err, r1.store, c1)
                  ELSE res(TRUE, u1.out, NilErr, r1.store, c1)
        ELSE IF ~checkL2 \/ ~inst.l2 THEN res(FALSE, NoValue, NilErr, r1.store, c1)
        ELSE IF r2.err # NilErr THEN res(FALSE, NoValue, r2.err, r1.store, c2)
        ELSE IF ~r2.found THEN res(FALSE, NoValue, NilErr, r1.store, c2)
        ELSE IF u2.err # NilErr THEN res(FALSE, NoValue, u2.err, r1.store, c2)
        ELSE IF ShouldWarm(inst, checkL1, opts)
             THEN res(TRUE, u2.out, NilErr, w.store, c3)
             ELSE res(TRUE, u2.out, NilErr, r1.store, c2)

\* Mutant: the error of the warmup write is returned to the caller.
GetRun_WarmupErrorReturned(inst, s1, s2, t, key, opts, g1, g2, w1) ==
    LET res(found, out, err, st1, cl) ==
            [found |-> found, out |-> out, err |-> err, l1s |-> st1, l2s |-> s2, calls |-> cl]
        lv == applyEndpointLevelOverrides(opts, determineCacheLevel(inst.mode)[1],
                                                determineCacheLevel(inst.mode)[2])
        checkL1 == lv[1]
        checkL2 == lv[2]
        readL1 == checkL1 /\ inst.l1
        r1 == IF readL1 THEN BigCacheGet(s1, key, t, g1)
              ELSE [data |-> <<>>, found |-> FALSE, err |-> NilErr, store |-> s1]
        c1 == IF readL1 THEN <<Call("L1", "Get", key, <<>>, 0, r1.err)>> ELSE <<>>
        u1 == Unmarshal(r1.data)
        r2 == RedisGet(s2, key, t, g2)
        c2 == c1 \o <<Call("L2", "Get", key, <<>>, 0, r2.err)>>
        u2 == Unmarshal(r2.data)
        w == BigCacheSet(r1.store, key, r2.data, inst.warmupTTL, t, w1)
        c3 == c2 \o <<Call("L1", "Set", key, r2.data, inst.warmupTTL, w.err)>>
    IN  IF inst.nil THEN res(FALSE, NoValue, ErrNotInitialized, s1, <<>>)
        ELSE IF OverrideRejected(inst, opts) THEN res(FALSE, NoValue, ErrOverridesNotAllowed, s1, <<>>)
        ELSE IF ~checkL1 /\ ~checkL2 THEN res(FALSE, NoValue, ErrGetNoTarget, s1, <<>>)
        ELSE IF checkL1 /\ ~inst.l1 THEN res(FALSE, NoValue, ErrL1NotConfigured, s1, <<>>)
        ELSE IF checkL2 /\ ~inst.l2 THEN res(FALSE, NoValue, ErrL2NotConfigured, s1, <<>>)
        ELSE IF r1.err # NilErr THEN res(FALSE, NoValue, r1.err, r1.store, c1)
        ELSE IF r1.found
             THEN IF u1.err # NilErr
                  THEN res(FALSE, NoValue, u1.err, r1.store, c1)
                  ELSE res(TRUE, u1.out, NilErr, r1.store, c1)
        ELSE IF ~checkL2 \/ ~inst.l2 THEN res(FALSE, NoValue, NilErr, r1.store, c1)
        ELSE IF r2.err # NilErr THEN res(FALSE, NoValue, r2.err, r1.store, c2)
        ELSE IF ~r2.found THEN res(FALSE, NoValue, NilErr, r1.store, c2)
        ELSE IF u2.err # NilErr THEN res(FALSE, NoValue, u2.err, r1.store, c2)
        ELSE IF ShouldWarm(inst, checkL1, opts)
             THEN IF w.err # NilErr
                  THEN res(FALSE, NoValue, w.err, w.store, c3)
                  ELSE res(TRUE, u2.out, NilErr, w.store, c3)
             ELSE res(TRUE, u2.out, NilErr, r1.store, c2)

\* Mutant: an L1 hit is followed by a read of L2 before it is returned.
GetRun_AlsoReadsL2(inst, s1, s2, t, key, opts, g1, g2, w1) ==
    LET res(found, out, err, st1, cl) ==
            [found |-> found, out |-> out, err |-> err, l1s |-> st1, l2s |-> s2, calls |-> cl]
        lv == applyEndpointLevelOverrides(opts, determineCacheLevel(inst.mode)[1],
                                                determineCacheLevel(inst.mode)[2])
        checkL1 == lv[1]
        checkL2 == lv[2]
        readL1 == checkL1 /\ inst.l1
        r1 == IF readL1 THEN BigCacheGet(s1, key, t, g1)
              ELSE [data |-> <<>>, found |-> FALSE, err |-> NilErr, store |-> s1]
        c1 == IF readL1 THEN <<Call("L1", "Get", key, <<>>, 0, r1.err)>> ELSE <<>>
        u1 == Unmarshal(r1.data)
        r2 == RedisGet(s2, key, t, g2)
        c2 == c1 \o <<Call("L2", "Get", key, <<>>, 0, r2.err)>>
        u2 == Unmarshal(r2.data)
        w == BigCacheSet(r1.store, key, r2.data, inst.warmupTTL, t, w1)
        c3 == c2 \o <<Call("L1", "Set", key, r2.data, inst.warmupTTL, w.err)>>
    IN  IF inst.nil THEN res(FALSE, NoValue, ErrNotInitialized, s1, <<>>)
        ELSE IF OverrideRejected(inst, opts) THEN res(FALSE, NoValue, ErrOverridesNotAllowed, s1, <<>>)
        ELSE IF ~checkL1 /\ ~checkL2 THEN res(FALSE, NoValue, ErrGetNoTarget, s1, <<>>)
        ELSE IF checkL1 /\ ~inst.l1 THEN res(FALSE, NoValue, ErrL1NotConfigured, s1, <<>>)
        ELSE IF checkL2 /\ ~inst.l2 THEN res(FALSE, NoValue, ErrL2NotConfigured, s1, <<>>)
        ELSE IF r1.err # NilErr THEN res(FALSE, NoValue, r1.err, r1.store, c1)
        ELSE IF r1.found
             THEN IF u1.err # NilErr
                  THEN res(FALSE, NoValue, u1.err, r1.store, c1)
                  ELSE res(TRUE, u1.out, NilErr, r1.store, c2)
        ELSE IF ~checkL2 \/ ~inst.l2 THEN res(FALSE, NoValue, NilErr, r1.store, c1)
        ELSE IF r2.err # NilErr THEN res(FALSE, NoValue, r2.err, r1.store, c2)
        ELSE IF ~r2.found THEN res(FALSE, NoValue, NilErr, r1.store, c2)
        ELSE IF u2.err # NilErr THEN res(FALSE, NoValue, u2.err, r1.store, c2)
        ELSE IF ShouldWarm(inst, checkL1, opts)
             THEN res(TRUE, u2.out, NilErr, w.store, c3)
             ELSE res(TRUE, u2.out, NilErr, r1.store, c2)

\* Mutant: the warmup write is made before the L2 payload is decoded.
GetRun_WarmsBeforeDecode(inst, s1, s2, t, key, opts, g1, g2, w1) ==
    LET res(found, out, err, st1, cl) ==
            [found |-> found, out |-> out, err |-> err, l1s |-> st1, l2s |-> s2, calls |-> cl]
        lv == applyEndpointLevelOverrides(opts, determineCacheLevel(inst.mode)[1],
                                                determineCacheLevel(inst.mode)[2])
        checkL1 == lv[1]
        checkL2 == lv[2]
        readL1 == checkL1 /\ inst.l1
        r1 == IF readL1 THEN BigCacheGet(s1, key, t, g1)
              ELSE [data |-> <<>>, found |-> FALSE, err |-> NilErr, store |-> s1]
        c1 == IF readL1 THEN <<Call("L1", "Get", key, <<>>, 0, r1.err)>> ELSE <<>>
        u1 == Unmarshal(r1.data)
        r2 == RedisGet(s2, key, t, g2)
        c2 == c1 \o <<Call("L2", "Get", key, <<>>, 0, r2.err)>>
        u2 == Unmarshal(r2.data)
        w == BigCacheSet(r1.store, key, r2.data, inst.warmupTTL, t, w1)
        c3 == c2 \o <<Call("L1", "Set", key, r2.data, inst.warmupTTL, w.err)>>
    IN  IF inst.nil THEN res(FALSE, NoValue, ErrNotInitialized, s1, <<>>)
        ELSE IF OverrideRejected(inst, opts) THEN res(FALSE, NoValue, ErrOverridesNotAllowed, s1, <<>>)
        ELSE IF ~checkL1 /\ ~checkL2 THEN res(FALSE, NoValue, ErrGetNoTarget, s1, <<>>)
        ELSE IF checkL1 /\ ~inst.l1 THEN res(FALSE, NoValue, ErrL1NotConfigured, s1, <<>>)
        ELSE IF checkL2 /\ ~inst.l2 THEN res(FALSE, NoValue, ErrL2NotConfigured, s1, <<>>)
        ELSE IF r1.err # NilErr THEN res(FALSE, NoValue, r1.err, r1.store, c1)
        ELSE IF r1.found
             THEN IF u1.err # NilErr
                  THEN res(FALSE, NoValue, u1.err, r1.store, c1)
                  ELSE res(TRUE, u1.out, NilErr, r1.store, c1)
        ELSE IF ~checkL2 \/ ~inst.l2 THEN res(FALSE, NoValue, NilErr, r1.store, c1)
        ELSE IF r2.err # NilErr THEN res(FALSE, NoValue, r2.err, r1.store, c2)
        ELSE IF ~r2.found THEN res(FALSE, NoValue, NilErr, r1.store, c2)
        ELSE IF u2.err # NilErr THEN res(FALSE, NoValue, u2.err, w.store, c3)
        ELSE IF ShouldWarm(inst, checkL1, opts)
             THEN res(TRUE, u2.out, NilErr, w.store, c3)
             ELSE res(TRUE, u2.out, NilErr, r1.store, c2)

\* Mutant: Get takes its L2 flag from the mode alone, Set from the mode and the override.
GetRun_IgnoresTargetL2(inst, s1, s2, t, key, opts, g1, g2, w1) ==
    LET res(found, out, err, st1, cl) ==
            [found |-> found, out |-> out, err |-> err, l1s |-> st1, l2s |-> s2, calls |-> cl]
        lv == applyEndpointLevelOverrides(opts, determineCacheLevel(inst.mode)[1],
                                                determineCacheLevel(inst.mode)[2])
        checkL1 == lv[1]
        checkL2 == determineCacheLevel(inst.mode)[2]
        readL1 == checkL1 /\ inst.l1
        r1 == IF readL1 THEN BigCacheGet(s1, key, t, g1)
              ELSE [data |-> <<>>, found |-> FALSE, err |-> NilErr, store |-> s1]
        c1 == IF readL1 THEN <<Call("L1", "Get", key, <<>>, 0, r1.err)>> ELSE <<>>
        u1 == Unmarshal(r1.data)
        r2 == RedisGet(s2, key, t, g2)
        c2 == c1 \o <<Call("L2", "Get", key, <<>>, 0, r2.err)>>
        u2 == Unmarshal(r2.data)
        w == BigCacheSet(r1.store, key, r2.data, inst.warmupTTL, t, w1)
        c3 == c2 \o <<Call("L1", "Set", key, r2.data, inst.warmupTTL, w.err)>>
    IN  IF inst.nil THEN res(FALSE, NoValue, ErrNotInitialized, s1, <<>>)
        ELSE IF OverrideRejected(inst, opts) THEN res(FALSE, NoValue, ErrOverridesNotAllowed, s1, <<>>)
        ELSE IF ~checkL1 /\ ~checkL2 THEN res(FALSE, NoValue, ErrGetNoTarget, s1, <<>>)
        ELSE IF checkL1 /\ ~inst.l1 THEN res(FALSE, NoValue, ErrL1NotConfigured, s1, <<>>)
        ELSE IF checkL2 /\ ~inst.l2 THEN res(FALSE, NoValue, ErrL2NotConfigured, s1, <<>>)
        ELSE IF r1.err # NilErr THEN res(FALSE, NoValue, r1.err, r1.store, c1)
        ELSE IF r1.found
             THEN IF u1.err # NilErr
                  THEN res(FALSE, NoValue, u1.err, r1.store, c1)
                  ELSE res(TRUE, u1.out, NilErr, r1.store, c1)
        ELSE IF ~checkL2 \/ ~inst.l2 THEN res(FALSE, NoValue, NilErr, r1.store, c1)
        ELSE IF r2.err # NilErr THEN res(FALSE, NoValue, r2.err, r1.store, c2)
        ELSE IF ~r2.found THEN res(FALSE, NoValue, NilErr, r1.store, c2)
        ELSE IF u2.err # NilErr THEN res(FALSE, NoValue, u2.err, r1.store, c2)
        ELSE IF ShouldWarm(inst, checkL1, opts)
             THEN res(TRUE, u2.out, NilErr, w.store, c3)
             ELSE res(TRUE, u2.out, NilErr, r1.store, c2)

\* Mutant: a Get that does not return the key removes it from L2.
GetRun_DropsFromL2OnMiss(inst, s1, s2, t, key, opts, g1, g2, w1) ==
    LET res(found, out, err, st1, cl) ==
            [found |-> found, out |-> out, err |-> err, l1s |-> st1,
             l2s |-> IF found THEN s2 ELSE MapDel(s2, key), calls |-> cl]
        lv == applyEndpointLevelOverrides(opts, determineCacheLevel(inst.mode)[1],
                                                determineCacheLevel(inst.mode)[2])
        checkL1 == lv[1]
        checkL2 == lv[2]
        readL1 == checkL1 /\ inst.l1
        r1 == IF readL1 THEN BigCacheGet(s1, key, t, g1)
              ELSE [data |-> <<>>, found |-> FALSE, err |-> NilErr, store |-> s1]
        c1 == IF readL1 THEN <<Call("L1", "Get", key, <<>>, 0, r1.err)>> ELSE <<>>
        u1 == Unmarshal(r1.data)
        r2 == RedisGet(s2, key, t, g2)
        c2 == c1 \o <<Call("L2", "Get", key, <<>>, 0, r2.err)>>
        u2 == Unmarshal(r2.data)
        w == BigCacheSet(r1.store, key, r2.data, inst.warmupTTL, t, w1)
        c3 == c2 \o <<Call("L1", "Set", key, r2.data, inst.warmupTTL, w.err)>>
    IN  IF inst.nil THEN res(FALSE, NoValue, ErrNotInitialized, s1, <<>>)
        ELSE IF OverrideRejected(inst, opts) THEN res(FALSE, NoValue, ErrOverridesNotAllowed, s1, <<>>)
        ELSE IF ~checkL1 /\ ~checkL2 THEN res(FALSE, NoValue, ErrGetNoTarget, s1, <<>>)
        ELSE IF checkL1 /\ ~inst.l1 THEN res(FALSE, NoValue, ErrL1NotConfigured, s1, <<>>)
        ELSE IF checkL2 /\ ~inst.l2 THEN res(FALSE, NoValue, ErrL2NotConfigured, s1, <<>>)
        ELSE IF r1.err # NilErr THEN res(FALSE, NoValue, r1.err, r1.store, c1)
        ELSE IF r1.found
             THEN IF u1.err # NilErr
                  THEN res(FALSE, NoValue, u1.err, r1.store, c1)
                  ELSE res(TRUE, u1.out, NilErr, r1.store, c1)
        ELSE IF ~checkL2 \/ ~inst.l2 THEN res(FALSE, NoValue, NilErr, r1.store, c1)
        ELSE IF r2.err # NilErr THEN res(FALSE, NoValue, r2.err, r1.store, c2)
        ELSE IF ~r2.found THEN res(FALSE, NoValue, NilErr, r1.store, c2)
        ELSE IF u2.err # NilErr THEN res(FALSE, NoValue, u2.err, r1.store, c2)
        ELSE IF ShouldWarm(inst, checkL1, opts)
             THEN res(TRUE, u2.out, NilErr, w.store, c3)
             ELSE res(TRUE, u2.out, NilErr, r1.store, c2)

\* Mutant: an L1 payload that does not decode is treated as an L1 miss.
GetRun_UndecodableL1IsMiss(inst, s1, s2, t, key, opts, g1, g2, w1) ==
    LET res(found, out, err, st1, cl) ==
            [found |-> found, out |-> out, err |-> err, l1s |-> st1, l2s |-> s2, calls |-> cl]
        lv == applyEndpointLevelOverrides(opts, determineCacheLevel(inst.mode)[1],
                                                determineCacheLevel(inst.mode)[2])
        checkL1 == lv[1]
        checkL2 == lv[2]
        readL1 == checkL1 /\ inst.l1
        r1 == IF readL1 THEN BigCacheGet(s1, key, t, g1)
              ELSE [data |-> <<>>, found |-> FALSE, err |-> NilErr, store |-> s1]
        c1 == IF readL1 THEN <<Call("L1", "Get", key, <<>>, 0, r1.err)>> ELSE <<>>
        u1 == Unmarshal(r1.data)
        r2 == RedisGet(s2, key, t, g2)
        c2 == c1 \o <<Call("L2", "Get", key, <<>>, 0, r2.err)>>
        u2 == Unmarshal(r2.data)
        w == BigCacheSet(r1.store, key, r2.data, inst.warmupTTL, t, w1)
        c3 == c2 \o <<Call("L1", "Set", key, r2.data, inst.warmupTTL, w.err)>>
    IN  IF inst.nil THEN res(FALSE, NoValue, ErrNotInitialized, s1, <<>>)
        ELSE IF OverrideRejected(inst, opts) THEN res(FALSE, NoValue, ErrOverridesNotAllowed, s1, <<>>)
        ELSE IF ~checkL1 /\ ~checkL2 THEN res(FALSE, NoValue, ErrGetNoTarget, s1, <<>>)
        ELSE IF checkL1 /\ ~inst.l1 THEN res(FALSE, NoValue, ErrL1NotConfigured, s1, <<>>)
        ELSE IF checkL2 /\ ~inst.l2 THEN res(FALSE, NoValue, ErrL2NotConfigured, s1, <<>>)
        ELSE IF r1.err # NilErr THEN res(FALSE, NoValue, r1.err, r1.store, c1)
        ELSE IF r1.found /\ u1.err = NilErr
             THEN IF u1.err # NilErr
                  THEN res(FALSE, NoValue, u1.err, r1.store, c1)
                  ELSE res(TRUE, u1.out, NilErr, r1.store, c1)
        ELSE IF ~checkL2 \/ ~inst.l2 THEN res(FALSE, NoValue, NilErr, r1.store, c1)
        ELSE IF r2.err # NilErr THEN res(FALSE, NoValue, r2.err, r1.store, c2)
        ELSE IF ~r2.found THEN res(FALSE, NoValue, NilErr, r1.store, c2)
        ELSE IF u2.err # NilErr THEN res(FALSE, NoValue, u2.err, r1.store, c2)
        ELSE IF ShouldWarm(inst, checkL1, opts)
             THEN res(TRUE, u2.out, NilErr, w.store, c3)
             ELSE res(TRUE, u2.out, NilErr, r1.store, c2)

\* g1, g2, w1: the errors the tiers report for the L1 read, the L2 read and
\* the L1 warmup write of this call, when the call makes them.
GetRun(inst, s1, s2, t, key, opts, g1, g2, w1) ==
    LET res(found, out, err, st1, cl) ==
            [found |-> found, out |-> out, err |-> err, l1s |-> st1, l2s |-> s2, calls |-> cl]
        lv == applyEndpointLevelOverrides(opts, determineCacheLevel(inst.mode)[1],
                                                determineCacheLevel(inst.mode)[2])
        checkL1 == lv[1]
        checkL2 == lv[2]
        readL1 == checkL1 /\ inst.l1
        r1 == IF readL1 THEN BigCacheGet(s1, key, t, g1)
              ELSE [data |-> <<>>, found |-> FALSE, err |-> NilErr, store |-> s1]
        c1 == IF readL1 THEN <<Call("L1", "Get", key, <<>>, 0, r1.err)>> ELSE <<>>
        u1 == Unmarshal(r1.data)
        r2 == RedisGet(s2, key, t, g2)
        c2 == c1 \o <<Call("L2", "Get", key, <<>>, 0, r2.err)>>
        u2 == Unmarshal(r2.data)
        w == BigCacheSet(r1.store, key, r2.data, inst.warmupTTL, t, w1)
        c3 == c2 \o <<Call("L1", "Set", key, r2.data, inst.warmupTTL, w.err)>>
    IN  IF inst.nil THEN res(FALSE, NoValue, ErrNotInitialized, s1, <<>>)
        ELSE IF OverrideRejected(inst, opts) THEN res(FALSE, NoValue, ErrOverridesNotAllowed, s1, <<>>)
        ELSE IF ~checkL1 /\ ~checkL2 THEN res(FALSE, NoValue, ErrGetNoTarget, s1, <<>>)
        ELSE IF checkL1 /\ ~inst.l1 THEN res(FALSE, NoValue, ErrL1NotConfigured, s1, <<>>)
        ELSE IF checkL2 /\ ~inst.l2 THEN res(FALSE, NoValue, ErrL2NotConfigured, s1, <<>>)
        ELSE IF r1.err # NilErr THEN res(FALSE, NoValue, r1.err, r1.store, c1)
        ELSE IF r1.found
             THEN IF u1.err # NilErr
                  THEN res(FALSE, NoValue, u1.err, r1.store, c1)
                  ELSE res(TRUE, u1.out, NilErr, r1.store, c1)
        ELSE IF ~checkL2 \/ ~inst.l2 THEN res(FALSE, NoValue, NilErr, r1.store, c1)
        ELSE IF r2.err # NilErr THEN res(FALSE, NoValue, r2.err, r1.store, c2)
        ELSE IF ~r2.found THEN res(FALSE, NoValue, NilErr, r1.store, c2)
        ELSE IF u2.err # NilErr THEN res(FALSE, NoValue, u2.err, r1.store, c2)
        ELSE IF ShouldWarm(inst, checkL1, opts)
             THEN res(TRUE, u2.out, NilErr, w.store, c3)
             ELSE res(TRUE, u2.out, NilErr, r1.store, c2)

----------------------------------------------------------------------------
(* Orchestrator: Set *)

\* Mutant: the L2 write is skipped once the L1 write failed.
SetWrites_StopAtFirstFailure(s1, s2, t, key, data, l1TTL, l2TTL, targetL1, targetL2, f1, f2) ==
    LET w1 == IF targetL1 THEN BigCacheSet(s1, key, data, l1TTL, t, f1)
              ELSE [err |-> NilErr, store |-> s1]
        c1 == IF targetL1 THEN <<Call("L1", "Set", key, data, l1TTL, w1.err)>> ELSE <<>>
        doL2 == targetL2 /\ w1.err = NilErr
        w2 == IF doL2 THEN RedisSet(s2, key, data, l2TTL, t, f2)
              ELSE [err |-> NilErr, store |-> s2]
        c2 == IF doL2 THEN <<Call("L2", "Set", key, data, l2TTL, w2.err)>> ELSE <<>>
    IN  [l1Err |-> w1.err, l2Err |-> w2.err, l1s |-> w1.store, l2s |-> w2.store,
         calls |-> c1 \o c2]

\* Mutant: a failed L1 write is tried a second time.
SetWrites_RetriesL1(s1, s2, t, key, data, l1TTL, l2TTL, targetL1, targetL2, f1, f2) ==
    LET w1 == IF targetL1 THEN BigCacheSet(s1, key, data, l1TTL, t, f1)
              ELSE [err |-> NilErr, store |-> s1]
        c0 == IF targetL1 THEN <<Call("L1", "Set", key, data, l1TTL, w1.err)>> ELSE <<>>
        c1 == IF w1.err # NilErr THEN c0 \o c0 ELSE c0
        w2 == IF targetL2 THEN RedisSet(s2, key, data, l2TTL, t, f2)
              ELSE [err |-> NilErr, store |-> s2]
        c2 == IF targetL2 THEN <<Call("L2", "Set", key, data, l2TTL, w2.err)>> ELSE <<>>
    IN  [l1Err |-> w1.err, l2Err |-> w2.err, l1s |-> w1.store, l2s |-> w2.store,
         calls |-> c1 \o c2]

\* The tier writes of Set: L1 then L2, each under its own flag.
SetWrites(s1, s2, t, key, data, l1TTL, l2TTL, targetL1, targetL2, f1, f2) ==
    LET w1 == IF targetL1 THEN BigCacheSet(s1, key, data, l1TTL, t, f1)
              ELSE [err |-> NilErr, store |-> s1]
        c1 == IF targetL1 THEN <<Call("L1", "Set", key, data, l1TTL, w1.err)>> ELSE <<>>
        w2 == IF targetL2 THEN RedisSet(s2, key, data, l2TTL, t, f2)
              ELSE [err |-> NilErr, store |-> s2]
        c2 == IF targetL2 THEN <<Call("L2", "Set", key, data, l2TTL, w2.err)>> ELSE <<>>
    IN  [l1Err |-> w1.err, l2Err |-> w2.err, l1s |-> w1.store, l2s |-> w2.store,
         calls |-> c1 \o c2]

\* fmt.Errorf("both cache levels failed: L1=%w, L2=%v", l1Err, l2Err)
BothFailed(l1Err, l2Err) ==
    <<"both cache levels failed">> \o <<"L1=">> \o l1Err \o <<"L2=">> \o l2Err

\* Mutant: with both tiers targeted, one failed write is enough for an error.
SetError_AnyFailure(targetL1, targetL2, l1Err, l2Err) ==
    IF targetL1 /\ targetL2
    THEN IF l1Err # NilErr \/ l2Err # NilErr THEN BothFailed(l1Err, l2Err) ELSE NilErr
    ELSE IF l1Err # NilErr THEN l1Err
    ELSE IF l2Err # NilErr THEN l2Err
    ELSE NilErr

\* Mutant: a failed write is reported only when both writes failed, also when
\* one tier alone was targeted.
SetError_OnlyWhenBothFail(targetL1, targetL2, l1Err, l2Err) ==
    IF l1Err # NilErr /\ l2Err # NilErr THEN BothFailed(l1Err, l2Err) ELSE NilErr

\* Mutant: a failed L1 write is returned whatever the L2 write did.
SetError_L1FailureWins(targetL1, targetL2, l1Err, l2Err) ==
    IF targetL1 /\ targetL2
    THEN IF l1Err # NilErr /\ l2Err # NilErr THEN BothFailed(l1Err, l2Err) ELSE l1Err
    ELSE IF l1Err # NilErr THEN l1Err
    ELSE IF l2Err # NilErr THEN l2Err
    ELSE NilErr

\* The error Set returns once the writes were attempted.
SetError(targetL1, targetL2, l1Err, l2Err) ==
    IF targetL1 /\ targetL2
    THEN IF l1Err # NilErr /\ l2Err # NilErr THEN BothFailed(l1Err, l2Err) ELSE NilErr
    ELSE IF l1Err # NilErr THEN l1Err
    ELSE IF l2Err # NilErr THEN l2Err
    ELSE NilErr

\* Mutant: a Set that targets no tier succeeds without doing anything.
SetRun_NoTargetIsNoOp(inst, s1, s2, t, key, value, opts, f1, f2) ==
    LET res(err, st1, st2, cl) == [err |-> err, l1s |-> st1, l2s |-> st2, calls |-> cl]
        enc == Marshal(value)
        ttl == normalize(opts, inst.l1DefaultTTL, inst.l2DefaultTTL)
        lv == applyEndpointLevelOverrides(opts, determineCacheLevel(inst.mode)[1],
                                                determineCacheLevel(inst.mode)[2])
        targetL1 == lv[1]
        targetL2 == lv[2]
        w == SetWrites(s1, s2, t, key, enc.data, ttl[1], ttl[2], targetL1, targetL2, f1, f2)
    IN  IF inst.nil THEN res(ErrNotInitialized, s1, s2, <<>>)
        ELSE IF OverrideRejected(inst, opts) THEN res(ErrOverridesNotAllowed, s1, s2, <<>>)
        ELSE IF enc.err # NilErr THEN res(enc.err, s1, s2, <<>>)
        ELSE IF ~targetL1 /\ ~targetL2 THEN res(NilErr, s1, s2, <<>>)
        ELSE IF targetL1 /\ ~inst.l1 THEN res(ErrL1NotConfigured, s1, s2, <<>>)
        ELSE IF targetL2 /\ ~inst.l2 THEN res(ErrL2NotConfigured, s1, s2, <<>>)
        ELSE res(SetError(targetL1, targetL2, w.l1Err, w.l2Err), w.l1s, w.l2s, w.calls)

\* Mutant: the marshal error is looked at after the tier writes.
SetRun_MarshalCheckedLast(inst, s1, s2, t, key, value, opts, f1, f2) ==
    LET res(err, st1, st2, cl) == [err |-> err, l1s |-> st1, l2s |-> st2, calls |-> cl]
        enc == Marshal(value)
        ttl == normalize(opts, inst.l1DefaultTTL, inst.l2DefaultTTL)
        lv == applyEndpointLevelOverrides(opts, determineCacheLevel(inst.mode)[1],
                                                determineCacheLevel(inst.mode)[2])
        targetL1 == lv[1]
        targetL2 == lv[2]
        w == SetWrites(s1, s2, t, key, enc.data, ttl[1], ttl[2], targetL1, targetL2, f1, f2)
    IN  IF inst.nil THEN res(ErrNotInitialized, s1, s2, <<>>)
        ELSE IF OverrideRejected(inst, opts) THEN res(ErrOverridesNotAllowed, s1, s2, <<>>)
        ELSE IF ~targetL1 /\ ~targetL2 THEN res(ErrSetNoTarget, s1, s2, <<>>)
        ELSE IF targetL1 /\ ~inst.l1 THEN res(ErrL1NotConfigured, s1, s2, <<>>)
        ELSE IF targetL2 /\ ~inst.l2 THEN res(ErrL2NotConfigured, s1, s2, <<>>)
        ELSE IF enc.err # NilErr THEN res(enc.err, w.l1s, w.l2s, w.calls)
        ELSE res(SetError(targetL1, targetL2, w.l1Err, w.l2Err), w.l1s, w.l2s, w.calls)

\* f1, f2: the errors the tiers report for the L1 and L2 write of this call,
\* when the call makes them.
SetRun(inst, s1, s2, t, key, value, opts, f1, f2) ==
    LET res(err, st1, st2, cl) == [err |-> err, l1s |-> st1, l2s |-> st2, calls |-> cl]
        enc == Marshal(value)
        ttl == normalize(opts, inst.l1DefaultTTL, inst.l2DefaultTTL)
        lv == applyEndpointLevelOverrides(opts, determineCacheLevel(inst.mode)[1],
                                                determineCacheLevel(inst.mode)[2])
        targetL1 == lv[1]
        targetL2 == lv[2]
        w == SetWrites(s1, s2, t, key, enc.data, ttl[1], ttl[2], targetL1, targetL2, f1, f2)
    IN  IF inst.nil THEN res(ErrNotInitialized, s1, s2, <<>>)
        ELSE IF OverrideRejected(inst, opts) THEN res(ErrOverridesNotAllowed, s1, s2, <<>>)
        ELSE IF enc.err # NilErr THEN res(enc.err, s1, s2, <<>>)
        ELSE IF ~targetL1 /\ ~targetL2 THEN res(ErrSetNoTarget, s1, s2, <<>>)
        ELSE IF targetL1 /\ ~inst.l1 THEN res(ErrL1NotConfigured, s1, s2, <<>>)
        ELSE IF targetL2 /\ ~inst.l2 THEN res(ErrL2NotConfigured, s1, s2, <<>>)
        ELSE res(SetError(targetL1, targetL2, w.l1Err, w.l2Err), w.l1s, w.l2s, w.calls)

----------------------------------------------------------------------------
(* Orchestrator: Delete *)

\* Mutant: the L2 error replaces firstErr, so an L1 failure is lost when the
\* L2 delete succeeds.
DeleteRun_LastErr(inst, s1, s2, key, d1, d2) ==
    LET r1 == IF inst.l1 THEN BigCacheDelete(s1, key, d1) ELSE [err |-> NilErr, store |-> s1]
        c1 == IF inst.l1 THEN <<Call("L1", "Delete", key, <<>>, 0, r1.err)>> ELSE <<>>
        r2 == IF inst.l2 THEN RedisDelete(s2, key, d2) ELSE [err |-> NilErr, store |-> s2]
        c2 == IF inst.l2 THEN <<Call("L2", "Delete", key, <<>>, 0, r2.err)>> ELSE <<>>
    IN  IF inst.nil
        THEN [err |-> ErrNotInitialized, l1s |-> s1, l2s |-> s2, calls |-> <<>>]
        ELSE [err |-> r2.err, l1s |-> r1.store, l2s |-> r2.store, calls |-> c1 \o c2]

\* Mutant: only the tiers the mode designates are deleted from.
DeleteRun_ModeFiltered(inst, s1, s2, key, d1, d2) ==
    LET lv == determineCacheLevel(inst.mode)
        doL1 == inst.l1 /\ lv[1]
        doL2 == inst.l2 /\ lv[2]
        r1 == IF doL1 THEN BigCacheDelete(s1, key, d1) ELSE [err |-> NilErr, store |-> s1]
        c1 == IF doL1 THEN <<Call("L1", "Delete", key, <<>>, 0, r1.err)>> ELSE <<>>
        r2 == IF doL2 THEN RedisDelete(s2, key, d2) ELSE [err |-> NilErr, store |-> s2]
        c2 == IF doL2 THEN <<Call("L2", "Delete", key, <<>>, 0, r2.err)>> ELSE <<>>
        firstErr == IF r1.err # NilErr THEN r1.err ELSE r2.err
    IN  IF inst.nil
        THEN [err |-> ErrNotInitialized, l1s |-> s1, l2s |-> s2, calls |-> <<>>]
        ELSE [err |-> firstErr, l1s |-> r1.store, l2s |-> r2.store, calls |-> c1 \o c2]

\* Mutant: the L2 delete is skipped once the L1 delete failed.
DeleteRun_StopAtFirstFailure(inst, s1, s2, key, d1, d2) ==
    LET r1 == IF inst.l1 THEN BigCacheDelete(s1, key, d1) ELSE [err |-> NilErr, store |-> s1]
        c1 == IF inst.l1 THEN <<Call("L1", "Delete", key, <<>>, 0, r1.err)>> ELSE <<>>
        doL2 == inst.l2 /\ r1.err = NilErr
        r2 == IF doL2 THEN RedisDelete(s2, key, d2) ELSE [err |-> NilErr, store |-> s2]
        c2 == IF doL2 THEN <<Call("L2", "Delete", key, <<>>, 0, r2.err)>> ELSE <<>>
        firstErr == IF r1.err # NilErr THEN r1.err ELSE r2.err
    IN  IF inst.nil
        THEN [err |-> ErrNotInitialized, l1s |-> s1, l2s |-> s2, calls |-> <<>>]
        ELSE [err |-> firstErr, l1s |-> r1.store, l2s |-> r2.store, calls |-> c1 \o c2]

\* d1, d2: the errors the tiers report for the L1 and L2 delete of this call.
DeleteRun(inst, s1, s2, key, d1, d2) ==
    LET r1 == IF inst.l1 THEN BigCacheDelete(s1, key, d1) ELSE [err |-> NilErr, store |-> s1]
        c1 == IF inst.l1 THEN <<Call("L1", "Delete", key, <<>>, 0, r1.err)>> ELSE <<>>
        r2 == IF inst.l2 THEN RedisDelete(s2, key, d2) ELSE [err |-> NilErr, store |-> s2]
        c2 == IF inst.l2 THEN <<Call("L2", "Delete", key, <<>>, 0, r2.err)>> ELSE <<>>
        firstErr == IF r1.err # NilErr THEN r1.err ELSE r2.err
    IN  IF inst.nil
        THEN [err |-> ErrNotInitialized, l1s |-> s1, l2s |-> s2, calls |-> <<>>]
        ELSE [err |-> firstErr, l1s |-> r1.store, l2s |-> r2.store, calls |-> c1 \o c2]

----------------------------------------------------------------------------
(* State machine *)

\* What the last call was and what it returned.
Result(op, key, value, opts, found, out, err) ==
    [op |-> op, key |-> key, value |-> value, opts |-> opts,
     found |-> found, out |-> out, err |-> err]

\* No Set has written both tiers yet.
NoRecord == [key |-> "", value |-> NoValue, at |-> -1, l1TTL |-> 0, l2TTL |-> 0, warmAt |-> -1]

\* The goroutines calling the instance, none of them in a call.
Procs == {"g1", "g2"}
Idle == [pc |-> "idle"]
NoCalls == [p \in Procs |-> Idle]

\* internal/cache BigCache: the hit tracker's map, empty; no Get hit counted
\* for any key; no snapshot taken.
TrackKeys == {"", "k1"}
NoStats == [k \in {} |-> 0]
NoHits == [k \in TrackKeys |-> 0]
NoSnapshot == [taken |-> FALSE, alias |-> FALSE, data |-> NoStats]

Init ==
    \E l1 \in BOOLEAN, l2 \in BOOLEAN, serializer \in BOOLEAN, cfg \in MultiLevelConfig :
        LET c == NewMultiLevelCache(l1, l2, serializer, cfg)
        IN  /\ m = c.m
            /\ l1s = EmptyMap
            /\ l2s = EmptyMap
            /\ now = 0
            /\ last = Result("New", "", NoValue, NoOptions, FALSE, NoValue, c.err)
            /\ calls = <<>>
            /\ written = NoRecord
            /\ inflight = NoCalls
            /\ stats = NoStats
            /\ hits = NoHits
            /\ snap = NoSnapshot

Get(key, opts, g1, g2, w1) ==
    LET r == GetRun(m, l1s, l2s, now, key, opts, g1, g2, w1)
    IN  /\ l1s' = r.l1s
        /\ l2s' = r.l2s
        /\ last' = Result("Get", key, NoValue, opts, r.found, r.out, r.err)
        /\ calls' = r.calls
        /\ UNCHANGED <<m, now, written, inflight, stats, hits, snap>>

Set(key, value, opts, f1, f2) ==
    LET r == SetRun(m, l1s, l2s, now, key, value, opts, f1, f2)
    IN  /\ l1s' = r.l1s
        /\ l2s' = r.l2s
        /\ last' = Result("Set", key, value, opts, FALSE, NoValue, r.err)
        /\ calls' = r.calls
        /\ UNCHANGED <<m, now, written, inflight, stats, hits, snap>>

Delete(key, d1, d2) ==
    LET r == DeleteRun(m, l1s, l2s, key, d1, d2)
    IN  /\ l1s' = r.l1s
        /\ l2s' = r.l2s
        /\ last' = Result("Delete", key, NoValue, NoOptions, FALSE, NoValue, r.err)
        /\ calls' = r.calls
        /\ UNCHANGED <<m, now, written, inflight, stats, hits, snap>>

Next ==
    \/ \E key \in Keys, i \in GetInputs : Get(key, i.opts, i.g1, i.g2, i.w1)
    \/ \E key \in Keys, i \in SetInputs : Set(key, i.value, i.opts, i.f1, i.f2)
    \/ \E key \in Keys, d1 \in L1Outcomes, d2 \in L2Outcomes : Delete(key, d1, d2)

Spec == Init /\ [][Next]_vars

----------------------------------------------------------------------------
(* Timed state machine: a BothLevels instance, calls whose tier calls answer *)
(* without error, and the wall clock.                                        *)

MaxTime == 5

\* WarmupTTL, L1DefaultTTL, L2DefaultTTL of the instances.
TimedTTLs == {<<0, 1, 3>>, <<1, 1, 3>>, <<2, 2, 1>>}

TimedConfigs == {[Mode |-> ModeBothLevels, WarmupTTL |-> t[1], L1DefaultTTL |-> t[2],
                  L2DefaultTTL |-> t[3]] : t \in TimedTTLs}

TimedOptions == {NoOptions} \cup TTLOptions

InitTimed ==
    \E cfg \in TimedConfigs :
        LET c == NewMultiLevelCache(TRUE, TRUE, TRUE, cfg)
        IN  /\ m = c.m
            /\ l1s = EmptyMap
            /\ l2s = EmptyMap
            /\ now = 0
            /\ last = Result("New", "", NoValue, NoOptions, FALSE, NoValue, c.err)
            /\ calls = <<>>
            /\ written = NoRecord
            /\ inflight = NoCalls
            /\ stats = NoStats
            /\ hits = NoHits
            /\ snap = NoSnapshot

\* time.Now() advances between two calls.
Tick ==
    /\ now < MaxTime
    /\ now' = now + 1
    /\ UNCHANGED <<m, l1s, l2s, last, calls, written, inflight, stats, hits, snap>>

SetAt(key, value, opts) ==
    LET r == SetRun(m, l1s, l2s, now, key, value, opts, NilErr, NilErr)
    IN  /\ l1s' = r.l1s
        /\ l2s' = r.l2s
        /\ last' = Result("Set", key, value, opts, FALSE, NoValue, r.err)
        /\ calls' = r.calls
        /\ written' = IF r.err = NilErr /\ Len(r.calls) = 2
                      THEN [key |-> key, value |-> value, at |-> now,
                            l1TTL |-> r.calls[1].ttl, l2TTL |-> r.calls[2].ttl,
                            warmAt |-> -1]
                      ELSE written
        /\ UNCHANGED <<m, now, inflight, stats, hits, snap>>

GetAt(key) ==
    LET r == GetRun(m, l1s, l2s, now, key, NoOptions, NilErr, NilErr, NilErr)
    IN  /\ l1s' = r.l1s
        /\ l2s' = r.l2s
        /\ last' = Result("Get", key, NoValue, NoOptions, r.found, r.out, r.err)
        /\ calls' = r.calls
        /\ written' = IF Len(r.calls) = 3 /\ written.key = key
                      THEN [written EXCEPT !.warmAt = now]
                      ELSE written
        /\ UNCHANGED <<m, now, inflight, stats, hits, snap>>

NextTimed ==
    \/ Tick
    \/ \E key \in Keys, value \in {StrA, StrB}, opts \in TimedOptions : SetAt(key, value, opts)
    \/ \E key \in Keys : GetAt(key)

SpecTimed == InitTimed /\ [][NextTimed]_vars

----------------------------------------------------------------------------
(* Tier machine: the two tier stores called directly, with the wall clock.  *)
(* calls logs the calls the wrapper made to the store underneath it.        *)

TierPayloads == {<<97>>, <<98>>}
TierTTLs == {-1, 0, 1, 2}

Bytes(data) == [kind |-> "bytes", v |-> data]

InitTiers ==
    /\ m = NilCache
    /\ l1s = EmptyMap
    /\ l2s = EmptyMap
    /\ now = 0
    /\ last = Result("New", "", NoValue, NoOptions, FALSE, NoValue, NilErr)
    /\ calls = <<>>
    /\ written = NoRecord
    /\ inflight = NoCalls
    /\ stats = NoStats
    /\ hits = NoHits
    /\ snap = NoSnapshot

L1Set(key, value, ttl, f) ==
    LET r == BigCacheSet(l1s, key, value, ttl, now, f)
    IN  /\ l1s' = r.store
        /\ last' = Result("L1.Set", key, Bytes(value), NoOptions, FALSE, NoValue, r.err)
        /\ calls' = <<Call("bigcache", "Set", key, encodeEntry(value, ttl, now), ttl, r.err)>>
        /\ UNCHANGED <<m, l2s, now, written, inflight, stats, hits, snap>>

L1Get(key, f) ==
    LET r == BigCacheGet(l1s, key, now, f)
    IN  /\ l1s' = r.store
        /\ last' = Result("L1.Get", key, NoValue, NoOptions, r.found, Bytes(r.data), r.err)
        /\ calls' = <<Call("bigcache", "Get", key, <<>>, 0, r.err)>>
                        \o (IF r.store # l1s
                            THEN <<Call("bigcache", "Delete", key, <<>>, 0, NilErr)>>
                            ELSE <<>>)
        /\ UNCHANGED <<m, l2s, now, written, inflight, stats, hits, snap>>

L1Delete(key, f) ==
    LET r == BigCacheDelete(l1s, key, f)
    IN  /\ l1s' = r.store
        /\ last' = Result("L1.Delete", key, NoValue, NoOptions, FALSE, NoValue, r.err)
        /\ calls' = <<Call("bigcache", "Delete", key, <<>>, 0, r.err)>>
        /\ UNCHANGED <<m, l2s, now, written, inflight, stats, hits, snap>>

L2Set(key, value, ttl, f) ==
    LET r == RedisSet(l2s, key, value, ttl, now, f)
    IN  /\ l2s' = r.store
        /\ last' = Result("L2.Set", key, Bytes(value), NoOptions, FALSE, NoValue, r.err)
        /\ calls' = <<Call("redis", "Set", key, value, ttl, r.err)>>
        /\ UNCHANGED <<m, l1s, now, written, inflight, stats, hits, snap>>

L2Get(key, f) ==
    LET r == RedisGet(l2s, key, now, f)
    IN  /\ last' = Result("L2.Get", key, NoValue, NoOptions, r.found, Bytes(r.data), r.err)
        /\ calls' = <<Call("redis", "Get", key, <<>>, 0, r.err)>>
        /\ UNCHANGED <<m, l1s, l2s, now, written, inflight, stats, hits, snap>>

L2Delete(key, f) ==
    LET r == RedisDelete(l2s, key, f)
    IN  /\ l2s' = r.store
        /\ last' = Result("L2.Delete", key, NoValue, NoOptions, FALSE, NoValue, r.err)
        /\ calls' = <<Call("redis", "Del", key, <<>>, 0, r.err)>>
        /\ UNCHANGED <<m, l1s, now, written, inflight, stats, hits, snap>>

NextTiers ==
    \/ Tick
    \/ \E key \in Keys, value \in TierPayloads, ttl \in TierTTLs, f \in L1Outcomes :
            L1Set(key, value, ttl, f)
    \/ \E key \in Keys, f \in L1Outcomes : L1Get(key, f)
    \/ \E key \in Keys, f \in L1Outcomes : L1Delete(key, f)
    \/ \E key \in Keys, value \in TierPayloads, ttl \in TierTTLs, f \in L2Outcomes :
            L2Set(key, value, ttl, f)
    \/ \E key \in Keys, f \in L2Outcomes : L2Get(key, f)
    \/ \E key \in Keys, f \in L2Outcomes : L2Delete(key, f)

SpecTiers == InitTiers /\ [][NextTiers]_vars

----------------------------------------------------------------------------
(* Concurrent machine: goroutines calling Get, Set and Delete without        *)
(* options on one BothLevels instance. A call takes one step per tier call  *)
(* it makes; the tier calls of different goroutines interleave. Every tier  *)
(* call answers without error.                                              *)

\* WarmupTTL, L1DefaultTTL, L2DefaultTTL of the instances.
ConcTTLs == {<<0, 1, 2>>, <<1, 2, 0>>}

ConcConfigs == {[Mode |-> ModeBothLevels, WarmupTTL |-> t[1], L1DefaultTTL |-> t[2],
                 L2DefaultTTL |-> t[3]] : t \in ConcTTLs}

\* A goroutine inside a call (pc names the tier call it makes next) or back
\* from one (pc = "done": found, out and err are what the call returned).
\* alone records that no call of another goroutine overlapped this one.
Frame(pc, op, key, value, data, found, out, err) ==
    [pc |-> pc, op |-> op, key |-> key, value |-> value, data |-> data,
     found |-> found, out |-> out, err |-> err, alone |-> TRUE]

Free(p) == inflight[p].pc \in {"idle", "done"}
At(p, pc) == inflight[p].pc = pc
Goto(p, f) == inflight' = [inflight EXCEPT ![p] = f]
Return(p, found, out, err) ==
    Goto(p, [inflight[p] EXCEPT !.pc = "done", !.found = found, !.out = out, !.err = err])

\* Goroutine p enters a call with frame f. The call overlaps every call then
\* in flight.
Begin(p, f) ==
    inflight' = [q \in Procs |->
                    IF q = p THEN [f EXCEPT !.alone = \A r \in Procs \ {p} : Free(r)]
                    ELSE IF Free(q) THEN inflight[q]
                    ELSE [inflight[q] EXCEPT !.alone = FALSE]]

InitConc ==
    \E cfg \in ConcConfigs :
        LET c == NewMultiLevelCache(TRUE, TRUE, TRUE, cfg)
        IN  /\ m = c.m
            /\ l1s = EmptyMap
            /\ l2s = EmptyMap
            /\ now = 0
            /\ last = Result("New", "", NoValue, NoOptions, FALSE, NoValue, c.err)
            /\ calls = <<>>
            /\ written = NoRecord
            /\ inflight = NoCalls
            /\ stats = NoStats
            /\ hits = NoHits
            /\ snap = NoSnapshot

\* Get: entry, validation and level selection.
CallGet(p, key) ==
    /\ Free(p)
    /\ ~OverrideRejected(m, NoOptions)
    /\ Begin(p, Frame("GetL1", "Get", key, NoValue, <<>>, FALSE, NoValue, NilErr))
    /\ UNCHANGED <<m, l1s, l2s, now, last, calls, written, stats, hits, snap>>

\* Get: m.l1.Get and the decoding of a hit.
GetL1(p) ==
    /\ At(p, "GetL1")
    /\ LET r == BigCacheGet(l1s, inflight[p].key, now, NilErr)
           u == Unmarshal(r.data)
       IN  /\ l1s' = r.store
           /\ IF r.found
              THEN IF u.err # NilErr
                   THEN Return(p, FALSE, NoValue, u.err)
                   ELSE Return(p, TRUE, u.out, NilErr)
              ELSE Goto(p, [inflight[p] EXCEPT !.pc = "GetL2"])
    /\ UNCHANGED <<m, l2s, now, last, calls, written, stats, hits, snap>>

\* Get: m.l2.Get, the decoding of a hit and the warmup decision.
GetL2(p) ==
    /\ At(p, "GetL2")
    /\ LET r == RedisGet(l2s, inflight[p].key, now, NilErr)
           u == Unmarshal(r.data)
       IN  IF ~r.found THEN Return(p, FALSE, NoValue, NilErr)
           ELSE IF u.err # NilErr THEN Return(p, FALSE, NoValue, u.err)
           ELSE IF ShouldWarm(m, TRUE, NoOptions)
           THEN Goto(p, [inflight[p] EXCEPT !.pc = "GetWarm", !.data = r.data, !.out = u.out])
           ELSE Return(p, TRUE, u.out, NilErr)
    /\ UNCHANGED <<m, l1s, l2s, now, last, calls, written, stats, hits, snap>>

\* Mutant: the warmup write also stores the L1 default TTL as the instance's
\* warmup TTL.
GetWarm_AdjustsWarmupTTL(p) ==
    /\ At(p, "GetWarm")
    /\ l1s' = BigCacheSet(l1s, inflight[p].key, inflight[p].data, m.warmupTTL, now, NilErr).store
    /\ m' = [m EXCEPT !.warmupTTL = m.l1DefaultTTL]
    /\ Return(p, TRUE, inflight[p].out, NilErr)
    /\ UNCHANGED <<l2s, now, last, calls, written, stats, hits, snap>>

\* Mutant: the warmup write is made only if L2 still serves the key.
GetWarm_RechecksL2(p) ==
    /\ At(p, "GetWarm")
    /\ l1s' = IF RedisLive(l2s, inflight[p].key, now)
              THEN BigCacheSet(l1s, inflight[p].key, inflight[p].data, m.warmupTTL, now, NilErr).store
              ELSE l1s
    /\ Return(p, TRUE, inflight[p].out, NilErr)
    /\ UNCHANGED <<m, l2s, now, last, calls, written, stats, hits, snap>>

\* Get: the warmup write m.l1.Set(key, data, m.warmupTTL) and the return.
GetWarm(p) ==
    /\ At(p, "GetWarm")
    /\ l1s' = BigCacheSet(l1s, inflight[p].key, inflight[p].data, m.warmupTTL, now, NilErr).store
    /\ Return(p, TRUE, inflight[p].out, NilErr)
    /\ UNCHANGED <<m, l2s, now, last, calls, written, stats, hits, snap>>

\* Set: entry, validation, serialization and level selection.
CallSet(p, key, value) ==
    /\ Free(p)
    /\ ~OverrideRejected(m, NoOptions)
    /\ Marshal(value).err = NilErr
    /\ Begin(p, Frame("SetL1", "Set", key, value, Marshal(value).data, FALSE, NoValue, NilErr))
    /\ UNCHANGED <<m, l1s, l2s, now, last, calls, written, stats, hits, snap>>

\* Set: m.l1.Set(key, data, l1TTL).
SetL1(p) ==
    /\ At(p, "SetL1")
    /\ l1s' = BigCacheSet(l1s, inflight[p].key, inflight[p].data,
                          normalize(NoOptions, m.l1DefaultTTL, m.l2DefaultTTL)[1], now, NilErr).store
    /\ Goto(p, [inflight[p] EXCEPT !.pc = "SetL2"])
    /\ UNCHANGED <<m, l2s, now, last, calls, written, stats, hits, snap>>

\* Mutant: the L2 write is skipped when L2 already holds the key.
SetL2_KeepsExisting(p) ==
    /\ At(p, "SetL2")
    /\ l2s' = IF inflight[p].key \in DOMAIN l2s
              THEN l2s
              ELSE RedisSet(l2s, inflight[p].key, inflight[p].data,
                            normalize(NoOptions, m.l1DefaultTTL, m.l2DefaultTTL)[2], now, NilErr).store
    /\ Return(p, FALSE, NoValue, SetError(TRUE, TRUE, NilErr, NilErr))
    /\ UNCHANGED <<m, l1s, now, last, calls, written, stats, hits, snap>>

\* Set: m.l2.Set(key, data, l2TTL) and the return.
SetL2(p) ==
    /\ At(p, "SetL2")
    /\ l2s' = RedisSet(l2s, inflight[p].key, inflight[p].data,
                       normalize(NoOptions, m.l1DefaultTTL, m.l2DefaultTTL)[2], now, NilErr).store
    /\ Return(p, FALSE, NoValue, SetError(TRUE, TRUE, NilErr, NilErr))
    /\ UNCHANGED <<m, l1s, now, last, calls, written, stats, hits, snap>>

\* Delete: entry.
CallDelete(p, key) ==
    /\ Free(p)
    /\ Begin(p, Frame("DelL1", "Delete", key, NoValue, <<>>, FALSE, NoValue, NilErr))
    /\ UNCHANGED <<m, l1s, l2s, now, last, calls, written, stats, hits, snap>>

\* Delete: m.l1.Delete(key).
DelL1(p) ==
    /\ At(p, "DelL1")
    /\ l1s' = BigCacheDelete(l1s, inflight[p].key, NilErr).store
    /\ Goto(p, [inflight[p] EXCEPT !.pc = "DelL2"])
    /\ UNCHANGED <<m, l2s, now, last, calls, written, stats, hits, snap>>

\* Delete: m.l2.Delete(key) and the return.
DelL2(p) ==
    /\ At(p, "DelL2")
    /\ l2s' = RedisDelete(l2s, inflight[p].key, NilErr).store
    /\ Return(p, FALSE, NoValue, NilErr)
    /\ UNCHANGED <<m, l1s, now, last, calls, written, stats, hits, snap>>

NextConc ==
    \/ \E p \in Procs, key \in Keys : CallGet(p, key)
    \/ \E p \in Procs : GetL1(p)
    \/ \E p \in Procs : GetL2(p)
    \/ \E p \in Procs : GetWarm(p)
    \/ \E p \in Procs, key \in Keys, value \in {StrA, StrB} : CallSet(p, key, value)
    \/ \E p \in Procs : SetL1(p)
    \/ \E p \in Procs : SetL2(p)
    \/ \E p \in Procs, key \in Keys : CallDelete(p, key)
    \/ \E p \in Procs : DelL1(p)
    \/ \E p \in Procs : DelL2(p)

SpecConc == InitConc /\ [][NextConc]_vars

----------------------------------------------------------------------------
(* Vocabulary of the properties *)

BothTiers == ~m.nil /\ m.l1 /\ m.l2
SingleTier == ~m.nil /\ (m.l1 # m.l2)

HasOverride(opts) == opts.TargetL1 # NilPtr \/ opts.TargetL2 # NilPtr

\* What a tier serves for key at the current instant.
L1Holds(s, key) == key \in DOMAIN s /\ decodeEntry(s[key], now).ok
L1Payload(s, key) == decodeEntry(s[key], now).payload
L2Holds(s, key) == RedisLive(s, key, now)
L2Payload(s, key) == s[key].value

Decodable(data) == Unmarshal(data).err = NilErr

\* Get(key) with the given options, issued in the current state, every tier
\* call it makes answering without a tier error.
GetNow(key, opts) == GetRun(m, l1s, l2s, now, key, opts, NilErr, NilErr, NilErr)

\* The last operation was Set(k, v) without options, v a string, on a
\* BothLevels instance, and it returned nil.
PlainSetReturnedNil ==
    /\ last.op = "Set"
    /\ last.opts = NoOptions
    /\ last.err = NilErr
    /\ last.value.kind = "str"
    /\ ~m.nil
    /\ m.mode = ModeBothLevels

\* The tiers a call with these options is meant to use: the mode's tiers,
\* each replaced by the call's flag when the flag is set.
WantsL1(opts) ==
    IF opts.TargetL1 # NilPtr THEN opts.TargetL1[1] ELSE m.mode \in {ModeBothLevels, ModeL1Only}
WantsL2(opts) ==
    IF opts.TargetL2 # NilPtr THEN opts.TargetL2[1] ELSE m.mode \in {ModeBothLevels, ModeL2Only}

\* The tier functions the last operation called, in the order of the calls.
Trace == [i \in 1..Len(calls) |-> <<calls[i].tier, calls[i].fn>>]

\* The error mentions the message of the tier error e.
Mentions(err, e) == \E i \in 1..Len(err) : err[i] = e[1]

\* The value of the last Set has an encoding.
Encodable(value) == Marshal(value).err = NilErr

----------------------------------------------------------------------------
(* C1 *)

\* C1 as stated: after Set(k, v) without options returned nil on a BothLevels
\* instance, the Get(k) issued next returns found=true with v, whatever the
\* outcomes of the two tier writes of that Set were.
C1_GetAfterSetAnyOutcome ==
    PlainSetReturnedNil =>
        LET g == GetNow(last.key, NoOptions)
        IN  g.found /\ g.out = last.value /\ g.err = NilErr

\* C1 amended: after Set(k, v) without options returned nil on a BothLevels
\* instance, the Get(k) issued next returns found=true with v, provided the L1
\* write of that Set succeeded or L1 serves no entry for k.
C1_GetAfterSet ==
    (PlainSetReturnedNil /\ (calls[1].err = NilErr \/ ~L1Holds(l1s, last.key))) =>
        LET g == GetNow(last.key, NoOptions)
        IN  g.found /\ g.out = last.value /\ g.err = NilErr

\* The Set wrote L1 and failed on L2, over an older different L2 payload.
C1_Witness ==
    /\ PlainSetReturnedNil
    /\ calls[1].err = NilErr
    /\ calls[2].err # NilErr
    /\ L2Holds(l2s, last.key) /\ L2Payload(l2s, last.key) # Marshal(last.value).data
    /\ GetNow(last.key, NoOptions).out = last.value

----------------------------------------------------------------------------
(* C2 *)

OnlyL2Holds(key) == ~L1Holds(l1s, key) /\ L2Holds(l2s, key) /\ Decodable(L2Payload(l2s, key))

\* C2: when only L2 holds k (a payload the destination decodes) and Get(k) is
\* called without options, the tiers answering: on a BothLevels instance Get
\* returns found=true with L2's value and afterwards L1 holds k; on an
\* instance with both tiers in L2Only mode Get returns found=true with L2's
\* value and afterwards L1 still does not hold k.
C2_WarmupByMode ==
    \A key \in Keys :
        (BothTiers /\ OnlyL2Holds(key)) =>
            LET g == GetNow(key, NoOptions)
                v == Unmarshal(L2Payload(l2s, key)).out
            IN  /\ m.mode = ModeBothLevels =>
                    /\ g.found /\ g.err = NilErr /\ g.out = v
                    /\ L1Holds(g.l1s, key)
                    /\ L1Payload(g.l1s, key) = L2Payload(l2s, key)
                /\ m.mode = ModeL2Only =>
                    /\ g.found /\ g.err = NilErr /\ g.out = v
                    /\ ~L1Holds(g.l1s, key)

\* A Get without options was served by L2 and warmed L1.
C2_Witness ==
    /\ BothTiers /\ m.mode = ModeBothLevels
    /\ last.op = "Get" /\ last.opts = NoOptions /\ last.found
    /\ Len(calls) = 3
    /\ calls[2].tier = "L2" /\ calls[3].fn = "Set" /\ calls[3].err = NilErr
    /\ L1Holds(l1s, last.key)

----------------------------------------------------------------------------
(* C3 *)

\* C3: on an instance with both tiers, whenever Delete(k) returned nil, k is
\* absent from L1 and from L2, and the Get(k) issued next (the tiers
\* answering) returns found=false with a nil error.
C3_DeleteEvictsBoth ==
    (BothTiers /\ last.op = "Delete" /\ last.err = NilErr) =>
        /\ last.key \notin DOMAIN l1s
        /\ last.key \notin DOMAIN l2s
        /\ LET g == GetNow(last.key, NoOptions)
           IN  ~g.found /\ g.err = NilErr

\* Delete returned nil when the tiers were not both empty before: the state
\* holds no entry, and some Set was served before (the Delete made 2 calls).
C3_Witness ==
    /\ BothTiers /\ last.op = "Delete" /\ last.err = NilErr
    /\ Len(calls) = 2
    /\ ~GetNow(last.key, NoOptions).found

----------------------------------------------------------------------------
(* C4 *)

\* C4: on an instance built with exactly one tier, every Get and every Set
\* whose options set TargetL1 or TargetL2 (to true or to false) returns the
\* override-not-allowed error, makes no tier-store call and leaves both
\* stores unchanged.
C4_OverridesRejected ==
    [][(SingleTier /\ last'.op \in {"Get", "Set"} /\ HasOverride(last'.opts)) =>
          /\ last'.err = ErrOverridesNotAllowed
          /\ ~last'.found
          /\ calls' = <<>>
          /\ l1s' = l1s
          /\ l2s' = l2s]_vars

\* A Set forcing L2 on an instance that has only L1, which holds an entry.
C4_Witness ==
    /\ SingleTier /\ m.l1
    /\ last.op = "Set" /\ last.opts.TargetL1 = NilPtr /\ last.opts.TargetL2 = BoolPtr(TRUE)
    /\ last.err = ErrOverridesNotAllowed
    /\ DOMAIN l1s # {}

----------------------------------------------------------------------------
(* C5 *)

\* A Set step on an instance with both tiers whose options give these flags.
SetStepWith(t1, t2) ==
    /\ BothTiers
    /\ last'.op = "Set"
    /\ Encodable(last'.value)
    /\ last'.opts.TargetL1 = t1
    /\ last'.opts.TargetL2 = t2

\* The tier serves the payload of the Set after the step.
L1HasPayloadAfter == L1Holds(l1s', last'.key) /\ L1Payload(l1s', last'.key) = Marshal(last'.value).data
L2HasPayloadAfter == L2Holds(l2s', last'.key) /\ L2Payload(l2s', last'.key) = Marshal(last'.value).data

\* C5: on an instance with both tiers, whatever its mode, a Set with
\* TargetL1=true and TargetL2=false writes the payload to L1 and leaves L2's
\* contents unchanged; with TargetL1=false and TargetL2=true it writes L2 and
\* leaves L1 unchanged; with both true it writes both. (A write the tier
\* accepts stores the payload; a write it refuses stores nothing.)
C5_TargetOverrides ==
    [][/\ SetStepWith(BoolPtr(TRUE), BoolPtr(FALSE)) =>
            /\ Trace' = << <<"L1", "Set">> >>
            /\ l2s' = l2s
            /\ calls'[1].err = NilErr => L1HasPayloadAfter
       /\ SetStepWith(BoolPtr(FALSE), BoolPtr(TRUE)) =>
            /\ Trace' = << <<"L2", "Set">> >>
            /\ l1s' = l1s
            /\ calls'[1].err = NilErr => L2HasPayloadAfter
       /\ SetStepWith(BoolPtr(TRUE), BoolPtr(TRUE)) =>
            /\ Trace' = << <<"L1", "Set">>, <<"L2", "Set">> >>
            /\ calls'[1].err = NilErr => L1HasPayloadAfter
            /\ calls'[2].err = NilErr => L2HasPayloadAfter
      ]_vars

\* On an L2Only instance with both tiers a Set forced to L1 alone was served:
\* L1 has the payload and L2 still has another one.
C5_Witness ==
    /\ BothTiers /\ m.mode = ModeL2Only
    /\ last.op = "Set" /\ last.err = NilErr
    /\ last.opts.TargetL1 = BoolPtr(TRUE) /\ last.opts.TargetL2 = BoolPtr(FALSE)
    /\ L1Holds(l1s, last.key) /\ L1Payload(l1s, last.key) = Marshal(last.value).data
    /\ L2Holds(l2s, last.key) /\ L2Payload(l2s, last.key) # Marshal(last.value).data

----------------------------------------------------------------------------
(* C6 *)

\* A Set step without target overrides on an instance of this mode.
PlainSetStep(mode) ==
    /\ ~m.nil
    /\ m.mode = mode
    /\ last'.op = "Set"
    /\ Encodable(last'.value)
    /\ ~HasOverride(last'.opts)

\* C6: a Set without target overrides writes exactly the tiers the mode
\* designates and leaves the other tier unchanged: BothLevels writes L1 and
\* L2, L1Only writes only L1, L2Only writes only L2, also when the other tier
\* is configured.
C6_ModeSelectsTiers ==
    [][/\ PlainSetStep(ModeBothLevels) =>
            /\ Trace' = << <<"L1", "Set">>, <<"L2", "Set">> >>
            /\ calls'[1].err = NilErr => L1HasPayloadAfter
            /\ calls'[2].err = NilErr => L2HasPayloadAfter
       /\ PlainSetStep(ModeL1Only) =>
            /\ Trace' = << <<"L1", "Set">> >>
            /\ l2s' = l2s
            /\ calls'[1].err = NilErr => L1HasPayloadAfter
       /\ PlainSetStep(ModeL2Only) =>
            /\ Trace' = << <<"L2", "Set">> >>
            /\ l1s' = l1s
            /\ calls'[1].err = NilErr => L2HasPayloadAfter
      ]_vars

\* On an L1Only instance with both tiers a Set without options was served
\* while L2 held another payload, which it still holds.
C6_Witness ==
    /\ BothTiers /\ m.mode = ModeL1Only
    /\ last.op = "Set" /\ last.err = NilErr /\ last.opts = NoOptions
    /\ Trace = << <<"L1", "Set">> >>
    /\ L2Holds(l2s, last.key) /\ L2Payload(l2s, last.key) # Marshal(last.value).data

----------------------------------------------------------------------------
(* C7 *)

\* C7: the TTL a Set hands to a tier is the call's TTL for that tier when it
\* is positive and the instance's default for that tier otherwise, each tier
\* on its own; the record a tier stores carries that TTL.
C7_TTLPerTier ==
    last.op = "Set" =>
        \A i \in 1..Len(calls) :
            /\ calls[i].tier = "L1" =>
                /\ calls[i].ttl = IF last.opts.L1TTL > 0 THEN last.opts.L1TTL
                                  ELSE m.l1DefaultTTL
                /\ calls[i].err = NilErr => l1s[last.key][1] = now + calls[i].ttl
            /\ calls[i].tier = "L2" =>
                /\ calls[i].ttl = IF last.opts.L2TTL > 0 THEN last.opts.L2TTL
                                  ELSE m.l2DefaultTTL
                /\ calls[i].err = NilErr => l2s[last.key].expireAt = now + calls[i].ttl

\* A Set that gave only L1TTL: L1 got the call's TTL, L2 the default.
C7_Witness ==
    /\ last.op = "Set" /\ last.err = NilErr
    /\ last.opts.L1TTL = 1 /\ last.opts.L2TTL = 0
    /\ m.l1DefaultTTL = 2 /\ m.l2DefaultTTL = 3
    /\ Len(calls) = 2
    /\ calls[1].ttl = 1 /\ calls[2].ttl = 3

----------------------------------------------------------------------------
(* C8 *)

\* C8: every TTL the orchestrator passes to a tier store's Set is strictly
\* positive, in the writes of Set and in the warmup write of Get, whatever
\* TTLs the instance was configured with and the call gave.
C8_PositiveTTL ==
    \A i \in 1..Len(calls) : calls[i].fn = "Set" => calls[i].ttl > 0

\* A warmup write on the instance configured with WarmupTTL = -1,
\* L1DefaultTTL = 2, L2DefaultTTL = 0.
C8_Witness ==
    /\ ~m.nil /\ m.warmupTTL = DefaultTTL /\ m.l1DefaultTTL = 2 /\ m.l2DefaultTTL = DefaultTTL
    /\ last.op = "Get" /\ last.found
    /\ Len(calls) = 3
    /\ calls[3].fn = "Set" /\ calls[3].ttl = DefaultTTL

----------------------------------------------------------------------------
(* C9, C10 *)

\* The last operation was a Set that targeted both tiers.
SetTargetedBoth ==
    /\ BothTiers
    /\ last.op = "Set"
    /\ Encodable(last.value)
    /\ WantsL1(last.opts)
    /\ WantsL2(last.opts)

\* C9: a Set that targets both tiers returns an error if and only if the L1
\* write and the L2 write both failed, and that error identifies both
\* failures; when exactly one write failed it returns nil.
C9_ErrorOnlyWhenBothFail ==
    SetTargetedBoth =>
        /\ Len(calls) = 2
        /\ last.err # NilErr <=> (calls[1].err # NilErr /\ calls[2].err # NilErr)
        /\ last.err # NilErr =>
            /\ Mentions(last.err, calls[1].err)
            /\ Mentions(last.err, calls[2].err)

\* Both writes failed and the error names both failures.
C9_Witness ==
    /\ SetTargetedBoth
    /\ calls[1].err = ErrL1 /\ calls[2].err = ErrL2
    /\ Mentions(last.err, ErrL1) /\ Mentions(last.err, ErrL2)

\* C10: a Set that targets both tiers attempts both writes, L1 first and then
\* L2, whatever the L1 write returned; after a failed L1 write and an accepted
\* L2 write the new payload is in L2.
C10_BothWritesAttempted ==
    SetTargetedBoth =>
        /\ Trace = << <<"L1", "Set">>, <<"L2", "Set">> >>
        /\ (calls[1].err # NilErr /\ calls[2].err = NilErr) =>
            /\ L2Holds(l2s, last.key)
            /\ L2Payload(l2s, last.key) = Marshal(last.value).data

\* The L1 write failed, the L2 write was made and L2 holds the payload.
C10_Witness ==
    /\ SetTargetedBoth
    /\ Len(calls) = 2
    /\ calls[1].err = ErrL1 /\ calls[2].err = NilErr
    /\ L2Payload(l2s, last.key) = Marshal(last.value).data
    /\ last.err = NilErr

----------------------------------------------------------------------------
(* C11 *)

\* The last operation was a Set that passed the override check and targeted
\* exactly one tier, by the mode or by the call's flags.
SetTargetedOne ==
    /\ ~m.nil
    /\ last.op = "Set"
    /\ Encodable(last.value)
    /\ ~OverrideRejected(m, last.opts)
    /\ WantsL1(last.opts) # WantsL2(last.opts)

\* C11: a Set that targets exactly one tier makes one tier call, the write to
\* that tier, and returns what that write returned: the tier's error unchanged
\* when it failed, nil when it succeeded. The other tier is not written.
C11_SingleTierError ==
    SetTargetedOne =>
        /\ Trace = << <<IF WantsL1(last.opts) THEN "L1" ELSE "L2", "Set">> >>
        /\ last.err = calls[1].err

\* On a BothLevels instance a Set with TargetL1=false failed on L2 and
\* returned L2's error, while L1 keeps the entry it had.
C11_Witness ==
    /\ SetTargetedOne
    /\ BothTiers /\ m.mode = ModeBothLevels
    /\ last.opts.TargetL1 = BoolPtr(FALSE)
    /\ calls[1].err = ErrL2
    /\ last.err = ErrL2
    /\ L1Holds(l1s, last.key)

----------------------------------------------------------------------------
(* C12 *)

\* The inputs C12 says construction accepts.
Accepted(l1, l2, serializer, cfg) ==
    /\ serializer
    /\ CASE cfg.Mode = ModeL1Only -> l1
         [] cfg.Mode = ModeL2Only -> l2
         [] OTHER -> l1 /\ l2

\* C12: NewMultiLevelCache returns an instance and a nil error exactly when
\* the serializer is present and the mode is L1Only with L1 present, or L2Only
\* with L2 present, or BothLevels or any other value with both tiers present;
\* for every other input it returns an error and the nil instance. The
\* machine's instance is the nil instance exactly when construction returned
\* an error.
C12_ConstructionOutcome ==
    /\ \A l1 \in BOOLEAN, l2 \in BOOLEAN, serializer \in BOOLEAN, cfg \in MultiLevelConfig :
            LET c == NewMultiLevelCache(l1, l2, serializer, cfg)
            IN  IF Accepted(l1, l2, serializer, cfg)
                THEN c.err = NilErr /\ ~c.m.nil /\ c.m.l1 = l1 /\ c.m.l2 = l2
                ELSE c.err # NilErr /\ c.m = NilCache
    /\ last.op = "New" => (m.nil <=> last.err # NilErr)

\* Construction with Mode=BothLevels and a tier missing was rejected.
C12_Witness ==
    /\ last.op = "New"
    /\ last.err = ErrBothNeedsBoth
    /\ m = NilCache

----------------------------------------------------------------------------
(* C13 *)

\* C13: a constructed instance has at least one tier, the tier or tiers its
\* mode names, and allowOverrides true exactly when it has both tiers, at
\* construction and after every Get, Set and Delete.
C13_InstanceInvariant ==
    ~m.nil =>
        /\ m.l1 \/ m.l2
        /\ m.mode \in {ModeBothLevels, ModeL1Only, ModeL2Only}
        /\ m.mode = ModeL1Only => m.l1
        /\ m.mode = ModeL2Only => m.l2
        /\ m.mode = ModeBothLevels => (m.l1 /\ m.l2)
        /\ m.allowOverrides <=> (m.l1 /\ m.l2)

\* An instance with L2 alone that has served a Set and then a Get.
C13_Witness ==
    /\ SingleTier /\ m.l2 /\ m.mode = ModeL2Only /\ ~m.allowOverrides
    /\ last.op = "Get" /\ last.found

----------------------------------------------------------------------------
(* C14 *)

\* A Get step on an instance built with Mode=L1Only and both stores.
L1OnlyGetStep == BothTiers /\ m.mode = ModeL1Only /\ last'.op = "Get"

NoCallAfter(tier, fn) == \A i \in 1..Len(calls') : ~(calls'[i].tier = tier /\ calls'[i].fn = fn)

----------------------------------------------------------------------------
(* C15, C16 *)

\* The last operation was a Delete on a constructed instance.
DeleteServed == ~m.nil /\ last.op = "Delete"

\* The tier deletes of an instance: every configured tier, L1 first.
ConfiguredDeletes ==
    (IF m.l1 THEN << <<"L1", "Delete">> >> ELSE <<>>)
        \o (IF m.l2 THEN << <<"L2", "Delete">> >> ELSE <<>>)

\* C15: Delete calls the delete of every tier configured on the instance,
\* whatever the mode, and of no other store; on an instance with both tiers
\* in L1Only or L2Only mode a Delete(k) that returned nil leaves k in neither
\* tier. A store that is not configured stays as it was built.
C15_DeleteAllConfigured ==
    /\ DeleteServed =>
        /\ Trace = ConfiguredDeletes
        /\ (BothTiers /\ last.err = NilErr) =>
              (last.key \notin DOMAIN l1s /\ last.key \notin DOMAIN l2s)
    /\ (~m.nil /\ ~m.l1) => l1s = EmptyMap
    /\ (~m.nil /\ ~m.l2) => l2s = EmptyMap

\* On an L1Only instance with both tiers Delete called the delete of L1 and
\* of L2, both accepted it, and it returned nil.
C15_Witness ==
    /\ DeleteServed
    /\ BothTiers /\ m.mode = ModeL1Only
    /\ last.err = NilErr
    /\ Trace = << <<"L1", "Delete">>, <<"L2", "Delete">> >>
    /\ l1s = EmptyMap /\ l2s = EmptyMap

\* The first error among the tier calls of the last operation, nil if none.
FirstErr ==
    IF \E i \in 1..Len(calls) : calls[i].err # NilErr
    THEN calls[CHOOSE i \in 1..Len(calls) :
                  /\ calls[i].err # NilErr
                  /\ \A j \in 1..(i - 1) : calls[j].err = NilErr].err
    ELSE NilErr

\* C16: Delete attempts the L1 delete and then the L2 delete, the second
\* whatever the first returned; it returns nil exactly when every attempted
\* delete succeeded and otherwise the first error met: L1's when L1 failed,
\* L2's only when L1 succeeded or is absent. An accepted L2 delete after a
\* failed L1 delete has removed the key from L2.
C16_DeleteFirstError ==
    DeleteServed =>
        /\ BothTiers => Trace = << <<"L1", "Delete">>, <<"L2", "Delete">> >>
        /\ last.err = FirstErr
        /\ last.err = NilErr <=> \A i \in 1..Len(calls) : calls[i].err = NilErr
        /\ (BothTiers /\ calls[1].err # NilErr /\ calls[2].err = NilErr) =>
              last.key \notin DOMAIN l2s

\* The L1 delete failed, the L2 delete was made and accepted, and Delete
\* returned L1's error; L1 still holds the key.
C16_Witness ==
    /\ DeleteServed /\ BothTiers
    /\ calls[1].err = ErrL1 /\ calls[2].err = NilErr
    /\ last.err = ErrL1
    /\ L1Holds(l1s, last.key)
    /\ last.key \notin DOMAIN l2s

----------------------------------------------------------------------------
(* C17 *)

\* The step is a Get whose i-th tier call is this read and returned an error.
GetReadFailed(i, tier) ==
    /\ last'.op = "Get"
    /\ Len(calls') >= i
    /\ calls'[i].tier = tier /\ calls'[i].fn = "Get"
    /\ calls'[i].err # NilErr

\* C17: a Get whose L1 read returns a tier error returns found=false with
\* that error, makes no further tier call (L2 is not queried) and leaves both
\* stores unchanged; a Get whose L2 read returns a tier error returns
\* found=false with that error, makes no warmup write and leaves L2 unchanged.
C17_ReadErrorsPropagate ==
    [][/\ GetReadFailed(1, "L1") =>
            /\ ~last'.found /\ last'.out = NoValue
            /\ last'.err = calls'[1].err
            /\ Len(calls') = 1
            /\ l1s' = l1s /\ l2s' = l2s
       /\ \A i \in 1..2 : GetReadFailed(i, "L2") =>
            /\ ~last'.found /\ last'.out = NoValue
            /\ last'.err = calls'[i].err
            /\ Len(calls') = i
            /\ NoCallAfter("L1", "Set")
            /\ l2s' = l2s
      ]_vars

\* On a BothLevels instance the L1 read of a Get failed while L2 holds the
\* key: L2 was not asked and the Get returned L1's error.
C17_Witness ==
    /\ BothTiers /\ m.mode = ModeBothLevels
    /\ last.op = "Get" /\ last.opts = NoOptions
    /\ Trace = << <<"L1", "Get">> >>
    /\ calls[1].err = ErrL1
    /\ last.err = ErrL1 /\ ~last.found
    /\ L2Holds(l2s, last.key) /\ Decodable(L2Payload(l2s, last.key))

----------------------------------------------------------------------------
(* C18 *)

\* The last operation was a Get that made a warmup write.
Warmed ==
    /\ last.op = "Get"
    /\ Len(calls) = 3
    /\ calls[3].tier = "L1" /\ calls[3].fn = "Set"

\* C18: a Get served by an L2 hit whose warmup write fails returns found=true
\* with the value decoded from L2's payload and a nil error; and for every
\* key and target options, the Get issued now returns the same found, value
\* and error whether its warmup write fails or succeeds.
C18_WarmupBestEffort ==
    /\ (Warmed /\ calls[3].err # NilErr) =>
            /\ last.found
            /\ last.err = NilErr
            /\ last.out = Unmarshal(L2Payload(l2s, last.key)).out
    /\ \A key \in Keys, o \in TargetOptions :
            LET ok == GetRun(m, l1s, l2s, now, key, o, NilErr, NilErr, NilErr)
                ko == GetRun(m, l1s, l2s, now, key, o, NilErr, NilErr, ErrL1)
            IN  ko.found = ok.found /\ ko.out = ok.out /\ ko.err = ok.err

\* The warmup write of a Get failed, the Get returned the value, and L1 still
\* does not serve the key.
C18_Witness ==
    /\ Warmed
    /\ calls[3].err = ErrL1
    /\ last.found /\ last.err = NilErr /\ last.out = StrA
    /\ ~L1Holds(l1s, last.key)

----------------------------------------------------------------------------
(* C19 *)

\* The last operation was a Get served by an L2 hit.
ServedByL2 ==
    /\ last.op = "Get"
    /\ last.found
    /\ \E i \in 1..Len(calls) :
          calls[i].tier = "L2" /\ calls[i].fn = "Get" /\ calls[i].err = NilErr

NoCall(tier, fn) == \A i \in 1..Len(calls) : ~(calls[i].tier = tier /\ calls[i].fn = fn)

\* C19: on a BothLevels instance a Get whose options set TargetL1 (true or
\* false) makes no write to L1, also when it read L1, missed and was served by
\* L2; a Get with TargetL1 unset that is served by an L2 hit makes the warmup
\* write of L2's payload to L1; on an L1Only or L2Only instance no Get makes
\* a write to L1.
C19_WarmupOnlyWithoutOverride ==
    (~m.nil /\ last.op = "Get") =>
        /\ (m.mode = ModeBothLevels /\ last.opts.TargetL1 # NilPtr) => NoCall("L1", "Set")
        /\ m.mode # ModeBothLevels => NoCall("L1", "Set")
        /\ (m.mode = ModeBothLevels /\ last.opts.TargetL1 = NilPtr /\ ServedByL2) =>
              /\ Warmed
              /\ calls[3].data = L2Payload(l2s, last.key)
              /\ calls[3].err = NilErr =>
                    (L1Holds(l1s, last.key) /\ L1Payload(l1s, last.key) = calls[3].data)

\* On a BothLevels instance a Get with TargetL1=true read L1, missed, was
\* served by L2 and did not warm: L1 still does not serve the key.
C19_Witness ==
    /\ BothTiers /\ m.mode = ModeBothLevels
    /\ last.opts.TargetL1 = BoolPtr(TRUE)
    /\ ServedByL2
    /\ Trace = << <<"L1", "Get">>, <<"L2", "Get">> >>
    /\ ~L1Holds(l1s, last.key)

----------------------------------------------------------------------------
(* C20 *)

\* The instant after which both TTLs of the record have elapsed.
Deadline == written.at + (IF written.l1TTL > written.l2TTL THEN written.l1TTL ELSE written.l2TTL)

\* A Set wrote the record to both tiers and no later Set wrote the key.
RecordWritten == written # NoRecord

\* No warmup write since the Set, or the warmup TTL has elapsed since the last.
WarmupElapsed == written.warmAt = -1 \/ now > written.warmAt + m.warmupTTL

\* C20 as stated: a record written by Set with TTLs t1 and t2, and not written
\* again by a later Set, is found by a Get issued before the later of the two
\* expiries and is reported as found=false with a nil error by every Get
\* issued after both TTLs have elapsed, whatever Gets were served in between.
C20_ExpiryWhateverGets ==
    RecordWritten =>
        LET g == GetNow(written.key, NoOptions)
        IN  /\ now < Deadline => (g.found /\ g.out = written.value /\ g.err = NilErr)
            /\ now > Deadline => (~g.found /\ g.err = NilErr)

\* C20 amended: the record is found by a Get issued before the later of the
\* two expiries, and is reported as found=false with a nil error by every Get
\* issued after both TTLs have elapsed provided no Get in between was served
\* by L2 and warmed L1, or the warmup TTL has elapsed since the last such Get.
C20_ExpiryAfterTTLs ==
    RecordWritten =>
        LET g == GetNow(written.key, NoOptions)
        IN  /\ now < Deadline => (g.found /\ g.out = written.value /\ g.err = NilErr)
            /\ (now > Deadline /\ WarmupElapsed) => (~g.found /\ g.err = NilErr)

\* Both TTLs of the record have elapsed, a Get in between was served by L2
\* and warmed L1, the warmup TTL has elapsed too, and the last Get missed
\* with the stale record purged from L1.
C20_Witness ==
    /\ RecordWritten
    /\ written.l1TTL # written.l2TTL
    /\ written.warmAt >= 0
    /\ now > Deadline /\ WarmupElapsed
    /\ last.op = "Get" /\ ~last.found /\ last.err = NilErr
    /\ l1s = EmptyMap
    /\ written.key \in DOMAIN l2s

----------------------------------------------------------------------------
(* C21, C22 *)

\* The instants at which a later Get can be issued.
Horizon == MaxTime + 3
Later == now..Horizon

\* The step is this call on a tier store, made at the instant now, and the
\* call returned nil.
TierStep(op) == now' = now /\ last'.op = op /\ last'.err = NilErr

HitWith(g, data) == g.found /\ g.data = data /\ g.err = NilErr
Miss(g) == ~g.found /\ g.data = <<>> /\ g.err = NilErr

\* C21: for each tier store, after Set(k, bytes, ttl) returned nil, a Get(k)
\* issued before the TTL has elapsed (at any instant when ttl <= 0) returns
\* those bytes with found=true and a nil error, and a Get(k) issued after a
\* positive TTL has elapsed returns found=false with a nil error; after
\* Delete(k) returned nil, Get(k) returns found=false with a nil error.
C21_TierRoundTrip ==
    [][/\ TierStep("L1.Set") =>
            \A t \in Later :
                LET g == BigCacheGet(l1s', last'.key, t, NilErr)
                    ttl == calls'[1].ttl
                IN  /\ (ttl <= 0 \/ t < now + ttl) => HitWith(g, last'.value.v)
                    /\ (ttl > 0 /\ t > now + ttl) => Miss(g)
       /\ TierStep("L2.Set") =>
            \A t \in Later :
                LET g == RedisGet(l2s', last'.key, t, NilErr)
                    ttl == calls'[1].ttl
                IN  /\ (ttl <= 0 \/ t < now + ttl) => HitWith(g, last'.value.v)
                    /\ (ttl > 0 /\ t > now + ttl) => Miss(g)
       /\ TierStep("L1.Delete") =>
            \A t \in 0..Horizon : Miss(BigCacheGet(l1s', last'.key, t, NilErr))
       /\ TierStep("L2.Delete") =>
            \A t \in 0..Horizon : Miss(RedisGet(l2s', last'.key, t, NilErr))
      ]_vars

\* A Get on the L2 store missed without error a key the server still has,
\* stored with a positive TTL that has elapsed.
C21_Witness ==
    /\ last.op = "L2.Get" /\ ~last.found /\ last.err = NilErr
    /\ last.key \in DOMAIN l2s
    /\ l2s[last.key].expireAt > 0
    /\ now > l2s[last.key].expireAt

\* C22: in the L1 store a record stored with ttl > 0 carries the expiry
\* instant now + ttl, is a hit for every Get at an instant not later than it
\* and leaves the store as it is, and for a Get strictly after it is a miss
\* with a nil error that removes the record from the store; a record stored
\* with ttl <= 0 carries the zero expiry and is a hit at every instant.
C22_LazyExpiry ==
    [][/\ TierStep("L1.Set") =>
            LET key == last'.key
                ttl == calls'[1].ttl
            IN  /\ l1s'[key][1] = IF ttl > 0 THEN now + ttl ELSE 0
                /\ \A t \in Later :
                      LET g == BigCacheGet(l1s', key, t, NilErr)
                      IN  IF ttl <= 0 \/ t <= now + ttl
                          THEN HitWith(g, last'.value.v) /\ g.store = l1s'
                          ELSE Miss(g) /\ key \notin DOMAIN g.store
       /\ (TierStep("L1.Get") /\ last'.key \in DOMAIN l1s) =>
            LET expiry == l1s[last'.key][1]
            IN  IF expiry = 0 \/ now <= expiry
                THEN last'.found /\ l1s' = l1s /\ Len(calls') = 1
                ELSE /\ ~last'.found
                     /\ last'.key \notin DOMAIN l1s'
                     /\ calls'[2].fn = "Delete"
      ]_vars

\* A Get on the L1 store found a record past its expiry instant, reported a
\* miss without error and deleted the record.
C22_Witness ==
    /\ last.op = "L1.Get" /\ ~last.found /\ last.err = NilErr
    /\ Len(calls) = 2
    /\ calls[2].fn = "Delete" /\ calls[2].key = last.key
    /\ last.key \notin DOMAIN l1s
    /\ now > 0

----------------------------------------------------------------------------
(* C23 *)

\* A goroutine is back from this call, which returned a nil error.
Returned(p, op) ==
    inflight[p].pc = "done" /\ inflight[p].op = op /\ inflight[p].err = NilErr

\* C23: no step of a Get, Set or Delete call, in any interleaving of the
\* calls of concurrent goroutines, changes a field of the instance.
C23_InstanceImmutable == [][m' = m]_vars

\* Two goroutines are back from a Set and a Get served by a warmup, and the
\* instance is the one construction produced from WarmupTTL 0 and default
\* TTLs 1 and 2.
C23_Witness ==
    /\ ~m.nil
    /\ m.warmupTTL = DefaultTTL /\ m.l1DefaultTTL = 1 /\ m.l2DefaultTTL = 2
    /\ \E p \in Procs : \E q \in Procs \ {p} :
          /\ Returned(p, "Set")
          /\ Returned(q, "Get") /\ inflight[q].found /\ inflight[q].data # <<>>

----------------------------------------------------------------------------
(* C24 *)

\* Every goroutine is outside a call.
AllReturned == \A p \in Procs : inflight[p].pc \in {"idle", "done"}

\* C24: the warmup write of a Get is made with the payload the Get read from
\* L2 whatever the tiers hold by then: after it L1 serves that payload, L2 is
\* as it was and the Get returns found=true with a nil error. And in a state
\* where L1 serves a key that L2 does not hold, a Get of that key returns
\* found=true from L1 and leaves both tiers as they are.
C24_StaleWarmup ==
    [][/\ \A p \in Procs :
            (inflight[p].pc = "GetWarm" /\ inflight'[p].pc = "done") =>
                /\ L1Holds(l1s', inflight[p].key)
                /\ L1Payload(l1s', inflight[p].key) = inflight[p].data
                /\ l2s' = l2s
                /\ inflight'[p].found /\ inflight'[p].err = NilErr
       /\ \A key \in Keys :
            (L1Holds(l1s', key) /\ key \notin DOMAIN l2s') =>
                LET g == GetRun(m', l1s', l2s', now', key, NoOptions, NilErr, NilErr, NilErr)
                IN  /\ g.found /\ g.err = NilErr
                    /\ g.out = Unmarshal(L1Payload(l1s', key)).out
                    /\ g.l1s = l1s' /\ g.l2s = l2s'
      ]_vars

\* A Get that hit L2 and a Delete of the same key have both returned without
\* error; L1 serves the payload the Get read from L2, L2 does not hold the
\* key, and a Get issued now returns found=true.
C24_Witness ==
    /\ AllReturned
    /\ \E p \in Procs : \E q \in Procs \ {p} :
          /\ Returned(p, "Get") /\ inflight[p].found /\ inflight[p].data # <<>>
          /\ Returned(q, "Delete") /\ inflight[q].key = inflight[p].key
          /\ L1Holds(l1s, inflight[p].key)
          /\ L1Payload(l1s, inflight[p].key) = inflight[p].data
          /\ inflight[p].key \notin DOMAIN l2s
          /\ GetNow(inflight[p].key, NoOptions).found

----------------------------------------------------------------------------
(* C25 *)

\* The configurations with WarmupTTL unset from which construction yields
\* the instance.
UnsetWarmupConfigs ==
    {cfg \in MultiLevelConfig :
        /\ cfg.WarmupTTL <= 0
        /\ NewMultiLevelCache(m.l1, m.l2, m.serializer, cfg).m = m}

----------------------------------------------------------------------------
(* internal/cache: the earlier MultiLevelCache, whose Get takes no options *)

\* One payload json decodes into a string and one it does not.
InternalPayloads == {<<Quote, 97, Quote>>, <<97>>}
InternalTTLs == {0, 1}
InternalConfigs ==
    {[Mode |-> md, WarmupTTL |-> 1, L1DefaultTTL |-> 1, L2DefaultTTL |-> 1] :
        md \in {ModeBothLevels, ModeL1Only, ModeL2Only}}

InternalNewMultiLevelCache(l1, l2, serializer, cfg) ==
    LET fail(e) == [m |-> NilCache, err |-> e]
        known == cfg.Mode \in {ModeL1Only, ModeL2Only, ModeBothLevels}
        mode == IF known THEN cfg.Mode ELSE ModeBothLevels
        allowOverrides == l1 /\ l2
        warmTTL == IF cfg.WarmupTTL <= 0 THEN DefaultTTL ELSE cfg.WarmupTTL
        l1TTL == IF cfg.L1DefaultTTL <= 0 THEN DefaultTTL ELSE cfg.L1DefaultTTL
        l2TTL == IF cfg.L2DefaultTTL <= 0 THEN DefaultTTL ELSE cfg.L2DefaultTTL
    IN  IF ~serializer THEN fail(ErrSerializerMissing)
        ELSE IF cfg.Mode = ModeL1Only /\ ~l1 THEN fail(ErrL1OnlyNeedsL1)
        ELSE IF cfg.Mode = ModeL2Only /\ ~l2 THEN fail(ErrL2OnlyNeedsL2)
        ELSE IF cfg.Mode = ModeBothLevels /\ (~l1 \/ ~l2) THEN fail(ErrBothNeedsBoth)
        ELSE IF ~known /\ (~l1 \/ ~l2) THEN fail(ErrDefaultNeedsBoth)
        ELSE IF l1 /\ ~l2 /\ mode # ModeL1Only THEN fail(ErrOnlyL1)
        ELSE IF ~l1 /\ l2 /\ mode # ModeL2Only THEN fail(ErrOnlyL2)
        ELSE [m |-> [nil |-> FALSE, l1 |-> l1, l2 |-> l2, serializer |-> serializer,
                     mode |-> mode, allowOverrides |-> allowOverrides,
                     warmupTTL |-> warmTTL, l1DefaultTTL |-> l1TTL, l2DefaultTTL |-> l2TTL],
              err |-> NilErr]

\* Mutant: a tier is consulted only when the mode selects it.
InternalGetRun_ModeFiltered(inst, s1, s2, t, key, g1, g2, w1) ==
    LET res(found, out, err, st1, cl) ==
            [found |-> found, out |-> out, err |-> err, l1s |-> st1, l2s |-> s2, calls |-> cl]
        readL1 == inst.l1 /\ inst.mode # ModeL2Only
        readL2 == inst.l2 /\ inst.mode # ModeL1Only
        r1 == IF readL1 THEN BigCacheGet(s1, key, t, g1)
              ELSE [data |-> <<>>, found |-> FALSE, err |-> NilErr, store |-> s1]
        c1 == IF readL1 THEN <<Call("L1", "Get", key, <<>>, 0, r1.err)>> ELSE <<>>
        u1 == Unmarshal(r1.data)
        r2 == RedisGet(s2, key, t, g2)
        c2 == c1 \o <<Call("L2", "Get", key, <<>>, 0, r2.err)>>
        u2 == Unmarshal(r2.data)
        w == BigCacheSet(r1.store, key, r2.data, inst.warmupTTL, t, w1)
        c3 == c2 \o <<Call("L1", "Set", key, r2.data, inst.warmupTTL, w.err)>>
    IN  IF inst.nil THEN res(FALSE, NoValue, ErrNotInitialized, s1, <<>>)
        ELSE IF r1.err # NilErr THEN res(FALSE, NoValue, r1.err, r1.store, c1)
        ELSE IF r1.found THEN res(TRUE, u1.out, u1.err, r1.store, c1)
        ELSE IF ~readL2 THEN res(FALSE, NoValue, NilErr, r1.store, c1)
        ELSE IF r2.err # NilErr THEN res(FALSE, NoValue, r2.err, r1.store, c2)
        ELSE IF ~r2.found THEN res(FALSE, NoValue, NilErr, r1.store, c2)
        ELSE IF u2.err # NilErr THEN res(FALSE, NoValue, u2.err, r1.store, c2)
        ELSE IF inst.l1 /\ inst.mode = ModeBothLevels
             THEN res(TRUE, u2.out, NilErr, w.store, c3)
             ELSE res(TRUE, u2.out, NilErr, r1.store, c2)

\* Get(ctx, key, dest): L1 if present, then L2 if present, then the warmup
\* write under ModeBothLevels. An L1 hit returns true together with whatever
\* Unmarshal returns.
InternalGetRun(inst, s1, s2, t, key, g1, g2, w1) ==
    LET res(found, out, err, st1, cl) ==
            [found |-> found, out |-> out, err |-> err, l1s |-> st1, l2s |-> s2, calls |-> cl]
        r1 == IF inst.l1 THEN BigCacheGet(s1, key, t, g1)
              ELSE [data |-> <<>>, found |-> FALSE, err |-> NilErr, store |-> s1]
        c1 == IF inst.l1 THEN <<Call("L1", "Get", key, <<>>, 0, r1.err)>> ELSE <<>>
        u1 == Unmarshal(r1.data)
        r2 == RedisGet(s2, key, t, g2)
        c2 == c1 \o <<Call("L2", "Get", key, <<>>, 0, r2.err)>>
        u2 == Unmarshal(r2.data)
        w == BigCacheSet(r1.store, key, r2.data, inst.warmupTTL, t, w1)
        c3 == c2 \o <<Call("L1", "Set", key, r2.data, inst.warmupTTL, w.err)>>
    IN  IF inst.nil THEN res(FALSE, NoValue, ErrNotInitialized, s1, <<>>)
        ELSE IF r1.err # NilErr THEN res(FALSE, NoValue, r1.err, r1.store, c1)
        ELSE IF r1.found THEN res(TRUE, u1.out, u1.err, r1.store, c1)
        ELSE IF ~inst.l2 THEN res(FALSE, NoValue, NilErr, r1.store, c1)
        ELSE IF r2.err # NilErr THEN res(FALSE, NoValue, r2.err, r1.store, c2)
        ELSE IF ~r2.found THEN res(FALSE, NoValue, NilErr, r1.store, c2)
        ELSE IF u2.err # NilErr THEN res(FALSE, NoValue, u2.err, r1.store, c2)
        ELSE IF inst.l1 /\ inst.mode = ModeBothLevels
             THEN res(TRUE, u2.out, NilErr, w.store, c3)
             ELSE res(TRUE, u2.out, NilErr, r1.store, c2)

\* The tests' set-up: an instance over two tiers, both empty.
InitInternal ==
    \E cfg \in InternalConfigs :
        LET c == InternalNewMultiLevelCache(TRUE, TRUE, TRUE, cfg)
        IN  /\ m = c.m
            /\ l1s = EmptyMap
            /\ l2s = EmptyMap
            /\ now = 0
            /\ last = Result("New", "", NoValue, NoOptions, FALSE, NoValue, c.err)
            /\ calls = <<>>
            /\ written = NoRecord
            /\ inflight = NoCalls
            /\ stats = NoStats
            /\ hits = NoHits
            /\ snap = NoSnapshot

InternalGet(key, g1, g2, w1) ==
    LET r == InternalGetRun(m, l1s, l2s, now, key, g1, g2, w1)
    IN  /\ l1s' = r.l1s
        /\ l2s' = r.l2s
        /\ last' = Result("internal.Get", key, NoValue, NoOptions, r.found, r.out, r.err)
        /\ calls' = r.calls
        /\ UNCHANGED <<m, now, written, inflight, stats, hits, snap>>


----------------------------------------------------------------------------
(* C26 *)

\* Get(key) of internal/cache issued in the current state, every tier call
\* answering without a tier error.
InternalGetNow(key) == InternalGetRun(m, l1s, l2s, now, key, NilErr, NilErr, NilErr)

OnlyL1Holds(key) == L1Holds(l1s, key) /\ ~L2Holds(l2s, key) /\ Decodable(L1Payload(l1s, key))

----------------------------------------------------------------------------
(* C27 *)

\* The mode and the overrides of opts together target no tier.
NoTarget(opts) == ~WantsL1(opts) /\ ~WantsL2(opts)

\* The step is a Get or a Set that targets no tier, on an instance with both
\* tiers.
NoTargetStep ==
    /\ BothTiers
    /\ last'.op \in {"Get", "Set"}
    /\ NoTarget(last'.opts)

ErrNoTarget(op) == IF op = "Get" THEN ErrGetNoTarget ELSE ErrSetNoTarget

\* C27 as stated: on an instance with both tiers, every Get or Set whose
\* overrides leave no tier targeted returns the no-target error and makes no
\* tier call.
C27_NoTargetAnyValue ==
    [][NoTargetStep =>
            /\ last'.err = ErrNoTarget(last'.op)
            /\ calls' = <<>>
            /\ l1s' = l1s /\ l2s' = l2s]_vars

\* C27: on an instance with both tiers, a Get, or a Set of a value the
\* serializer marshals, whose overrides leave no tier targeted returns the
\* no-target error; a Set of a value the serializer cannot marshal returns
\* the marshal error; in both cases no tier call is made and both tiers are
\* as they were.
C27_NoTarget ==
    [][NoTargetStep =>
            /\ last'.err = IF last'.op = "Set" /\ ~Encodable(last'.value)
                           THEN Marshal(last'.value).err
                           ELSE ErrNoTarget(last'.op)
            /\ calls' = <<>>
            /\ l1s' = l1s /\ l2s' = l2s]_vars

\* On a two-tier ModeL1Only instance whose L1 holds the key, a Set with
\* TargetL1=false and no L2 override has returned the no-target error.
C27_Witness ==
    /\ BothTiers /\ m.mode = ModeL1Only
    /\ last.op = "Set" /\ Encodable(last.value)
    /\ last.opts.TargetL1 = BoolPtr(FALSE) /\ last.opts.TargetL2 = NilPtr
    /\ last.err = ErrSetNoTarget
    /\ calls = <<>>
    /\ L1Holds(l1s, last.key)

----------------------------------------------------------------------------
(* C28 *)

\* The tier is present on the instance.
Configured(tier) == IF tier = "L1" THEN m.l1 ELSE m.l2

\* C28: on a constructed instance, whatever the mode and the options of the
\* call, no operation returns a tier-not-configured error and every tier
\* call an operation makes goes to a tier the instance has.
C28_TargetedTierPresent ==
    ~m.nil =>
        /\ last.err \notin {ErrL1NotConfigured, ErrL2NotConfigured}
        /\ \A i \in 1..Len(calls) : Configured(calls[i].tier)
        /\ \A key \in Keys, opts \in TargetOptions \cup TTLOptions :
                GetNow(key, opts).err \notin {ErrL1NotConfigured, ErrL2NotConfigured}

\* An instance with L2 alone has served a Get from L2.
C28_Witness ==
    /\ ~m.nil /\ ~m.l1 /\ m.l2
    /\ last.op = "Get" /\ last.found /\ last.err = NilErr
    /\ Trace = << <<"L2", "Get">> >>

----------------------------------------------------------------------------
(* C29 *)

\* The step is a Set that reached the serializer, which failed on the value.
MarshalFailedStep ==
    /\ ~m.nil
    /\ last'.op = "Set"
    /\ ~OverrideRejected(m, last'.opts)
    /\ ~Encodable(last'.value)

\* C29: a Set whose value the serializer fails to marshal returns the
\* serializer's error, makes no tier call, and leaves both tiers as they were.
C29_MarshalFailureNoWrites ==
    [][MarshalFailedStep =>
            /\ last'.err # NilErr
            /\ last'.err = Marshal(last'.value).err
            /\ calls' = <<>>
            /\ l1s' = l1s /\ l2s' = l2s]_vars

\* On a two-tier instance whose tiers both hold the key, a Set of a value
\* json cannot encode, with overrides that target both tiers, has returned
\* the marshal error.
C29_Witness ==
    /\ BothTiers
    /\ last.op = "Set" /\ last.value = Chan
    /\ last.opts.TargetL1 = BoolPtr(TRUE) /\ last.opts.TargetL2 = BoolPtr(TRUE)
    /\ last.err = ErrMarshal
    /\ calls = <<>>
    /\ L1Holds(l1s, last.key) /\ L2Holds(l2s, last.key)

----------------------------------------------------------------------------
(* C30 *)

\* The tier functions an operation may call.
TierFunctions(op) ==
    CASE op = "Get" -> {<<"L1", "Get">>, <<"L2", "Get">>, <<"L1", "Set">>}
      [] op = "Set" -> {<<"L1", "Set">>, <<"L2", "Set">>}
      [] op = "Delete" -> {<<"L1", "Delete">>, <<"L2", "Delete">>}
      [] OTHER -> {}

\* C30: whatever errors the tiers return, the tier calls of one Get, Set or
\* Delete are among the functions that operation uses and no function of a
\* tier is called twice.
C30_NoRetry ==
    /\ \A i \in 1..Len(calls) : Trace[i] \in TierFunctions(last.op)
    /\ \A i \in 1..Len(calls), j \in 1..Len(calls) : Trace[i] = Trace[j] => i = j

\* A Set to both tiers whose two writes failed: each write was tried once.
C30_Witness ==
    /\ last.op = "Set"
    /\ Trace = << <<"L1", "Set">>, <<"L2", "Set">> >>
    /\ calls[1].err # NilErr /\ calls[2].err # NilErr
    /\ last.err # NilErr

----------------------------------------------------------------------------
(* C31 *)

\* A Get with these options reads L1: the instance accepts the options and
\* the mode with the overrides selects L1.
ChecksL1(opts) == ~m.nil /\ m.l1 /\ ~OverrideRejected(m, opts) /\ WantsL1(opts)

\* C31: when a Get checks L1 and L1 serves a payload the destination decodes,
\* Get returns found=true with that payload's value and a nil error, its only
\* tier call is the L1 read, and both tiers are as they were, whatever L2
\* holds for the key.
C31_ReadsPreferL1 ==
    \A key \in Keys, opts \in CacheOptions :
        (ChecksL1(opts) /\ L1Holds(l1s, key) /\ Decodable(L1Payload(l1s, key))) =>
            LET g == GetNow(key, opts)
            IN  /\ g.found /\ g.err = NilErr
                /\ g.out = Unmarshal(L1Payload(l1s, key)).out
                /\ Len(g.calls) = 1 /\ g.calls[1].tier = "L1" /\ g.calls[1].fn = "Get"
                /\ g.l1s = l1s /\ g.l2s = l2s

\* A Get has just been served by L1 alone while L2 holds another payload for
\* the key.
C31_Witness ==
    /\ last.op = "Get" /\ last.found /\ last.err = NilErr
    /\ Trace = << <<"L1", "Get">> >>
    /\ L1Holds(l1s, last.key) /\ L2Holds(l2s, last.key)
    /\ L1Payload(l1s, last.key) # L2Payload(l2s, last.key)
    /\ last.out = Unmarshal(L1Payload(l1s, last.key)).out

----------------------------------------------------------------------------
(* C32 *)

\* C32: the warmup write of a Get carries the payload L2 serves for the key
\* and the instance's warmup TTL, whatever the call's L1TTL and the L1
\* default TTL are, and follows an L2 read whose payload decoded; when it
\* succeeds L1 stores that payload with the warmup TTL. And a Get that reads
\* from L2 a payload the destination cannot decode returns found=false with
\* the decode error, makes no L1.Set call and leaves L1 as it was.
C32_WarmupPayloadAndTTL ==
    /\ Warmed =>
            /\ calls[2].tier = "L2" /\ calls[2].fn = "Get" /\ calls[2].err = NilErr
            /\ L2Holds(l2s, last.key)
            /\ calls[3].data = L2Payload(l2s, last.key)
            /\ Decodable(calls[3].data)
            /\ calls[3].ttl = m.warmupTTL
            /\ calls[3].err = NilErr =>
                    l1s[last.key] = encodeEntry(L2Payload(l2s, last.key), m.warmupTTL, now)
    /\ \A key \in Keys, opts \in CacheOptions :
            LET g == GetNow(key, opts)
            IN  (/\ g.calls # <<>>
                 /\ g.calls[Len(g.calls)].tier = "L2"
                 /\ L2Holds(l2s, key) /\ ~Decodable(L2Payload(l2s, key))) =>
                    /\ ~g.found
                    /\ g.err = Unmarshal(L2Payload(l2s, key)).err /\ g.err # NilErr
                    /\ g.l1s = l1s /\ g.l2s = l2s

\* A Get made with an L1TTL option has warmed L1 on an instance whose warmup
\* TTL differs from that option and from the L1 default TTL.
C32_Witness ==
    /\ Warmed /\ calls[3].err = NilErr
    /\ last.opts.L1TTL > 0
    /\ last.opts.L1TTL # m.warmupTTL
    /\ m.l1DefaultTTL # m.warmupTTL
    /\ L1Holds(l1s, last.key)

\* A Get on a BothLevels instance has read from L2 a payload it could not
\* decode: it returned the decode error and L1 has no record of the key.
C32_DecodeFailureReached ==
    /\ BothTiers /\ m.mode = ModeBothLevels
    /\ last.op = "Get" /\ last.opts = NoOptions
    /\ ~last.found /\ last.err = ErrUnmarshal
    /\ Trace = << <<"L1", "Get">>, <<"L2", "Get">> >>
    /\ last.key \notin DOMAIN l1s

----------------------------------------------------------------------------
(* C33 *)

\* The tiers the mode selects, each replaced by its override when one is set.
Participants(opts) ==
    {tier \in {"L1", "L2"} : IF tier = "L1" THEN WantsL1(opts) ELSE WantsL2(opts)}

\* The tiers a run called the function fn of.
TiersCalled(cl, fn) == {cl[i].tier : i \in {j \in 1..Len(cl) : cl[j].fn = fn}}

\* C33: on a constructed instance, for every options value the instance
\* accepts, a Set of an encodable value writes exactly the tiers the mode
\* selects with each set override replacing the mode's choice, and a Get with
\* the same options reads exactly those tiers when L1 does not end it with a
\* hit, and L1 alone when it does. Get and Set reject the same options, with
\* the override error or with their no-target error.
C33_SameTiersForGetAndSet ==
    \A key \in Keys, opts \in CacheOptions :
        LET g == GetNow(key, opts)
            s == SetRun(m, l1s, l2s, now, key, StrA, opts, NilErr, NilErr)
            hitL1 == "L1" \in Participants(opts) /\ L1Holds(l1s, key)
        IN  ~m.nil =>
                /\ (g.err = ErrOverridesNotAllowed) <=> (s.err = ErrOverridesNotAllowed)
                /\ (g.err = ErrGetNoTarget) <=> (s.err = ErrSetNoTarget)
                /\ (g.err = ErrGetNoTarget) <=>
                        (~OverrideRejected(m, opts) /\ Participants(opts) = {})
                /\ ~OverrideRejected(m, opts) =>
                        /\ TiersCalled(s.calls, "Set") = Participants(opts)
                        /\ TiersCalled(g.calls, "Get") =
                                IF hitL1 THEN {"L1"} ELSE Participants(opts)

\* On a two-tier ModeL1Only instance a Get with TargetL2=true and no L1
\* override has read L1 and then L2, and found in L2 the key a Set placed
\* there.
C33_Witness ==
    /\ BothTiers /\ m.mode = ModeL1Only
    /\ last.op = "Get"
    /\ last.opts.TargetL1 = NilPtr /\ last.opts.TargetL2 = BoolPtr(TRUE)
    /\ Trace = << <<"L1", "Get">>, <<"L2", "Get">> >>
    /\ last.found

----------------------------------------------------------------------------
(* C34 *)

\* L1 after a Get that made no successful warmup write: as it was, or
\* without the expired record the L1 tier purged on its own read.
L1AsLeftByRead(after, before, key) ==
    \/ after = before
    \/ /\ key \in DOMAIN before /\ ~L1Holds(before, key)
       /\ after = MapDel(before, key)

\* The step is a Get.
GetStep == last'.op = "Get" /\ now' = now

----------------------------------------------------------------------------
(* C35 *)

\* C35: no Get, of pkg/cache-manager or of internal/cache, returns found=true
\* together with an error: a hit whose payload does not decode is returned as
\* found=false with the decode error.
C35_FoundImpliesNoError ==
    last.op \in {"Get", "internal.Get"} =>
        /\ ~(last.found /\ last.err # NilErr)
        /\ last.err = ErrUnmarshal => ~last.found

----------------------------------------------------------------------------
(* C36 *)

\* C36: while L1 holds for a key an unexpired payload the destination cannot
\* decode, every Get of the key that checks L1, at every instant before the
\* record expires, returns found=false with the decode error after the L1
\* read alone and leaves both tiers as they are, so that the Get issued after
\* it returns the same, whatever L2 holds for the key.
C36_UndecodableL1Persists ==
    \A key \in Keys, opts \in CacheOptions, t \in Later :
        (/\ ChecksL1(opts)
         /\ key \in DOMAIN l1s
         /\ decodeEntry(l1s[key], t).ok
         /\ ~Decodable(decodeEntry(l1s[key], t).payload)) =>
            LET g == GetRun(m, l1s, l2s, t, key, opts, NilErr, NilErr, NilErr)
                h == GetRun(m, g.l1s, g.l2s, t, key, opts, NilErr, NilErr, NilErr)
            IN  /\ ~g.found
                /\ g.err = Unmarshal(decodeEntry(l1s[key], t).payload).err
                /\ g.err # NilErr
                /\ Len(g.calls) = 1 /\ g.calls[1].tier = "L1" /\ g.calls[1].fn = "Get"
                /\ g.l1s = l1s /\ g.l2s = l2s
                /\ h = g

\* A Get has returned the decode error from L1 while L2 holds a payload the
\* destination decodes.
C36_Witness ==
    /\ last.op = "Get" /\ ~last.found /\ last.err = ErrUnmarshal
    /\ Trace = << <<"L1", "Get">> >>
    /\ L1Holds(l1s, last.key) /\ ~Decodable(L1Payload(l1s, last.key))
    /\ L2Holds(l2s, last.key) /\ Decodable(L2Payload(l2s, last.key))

----------------------------------------------------------------------------
(* C37 *)

\* Both goroutines are back from a Set of the key, made without error.
SetsReturned(key) ==
    \A p \in Procs : Returned(p, "Set") /\ inflight[p].key = key

\* C37 as stated: on a BothLevels instance whose tier writes all succeed,
\* once the concurrent Sets on a key have returned, L1 and L2 hold the same
\* payload for the key, for every interleaving.
C37_ConcurrentSetsAgree ==
    \A key \in Keys :
        SetsReturned(key) =>
            /\ L1Holds(l1s, key) /\ L2Holds(l2s, key)
            /\ L1Payload(l1s, key) = L2Payload(l2s, key)

\* C37: when a Set that no call of another goroutine overlapped returns, L1
\* and L2 both hold the payload of that Set for its key.
C37_LoneSetAgrees ==
    [][\A p \in Procs :
            (/\ inflight[p].pc = "SetL2" /\ inflight'[p].pc = "done"
             /\ inflight[p].alone) =>
                /\ L1Holds(l1s', inflight[p].key) /\ L2Holds(l2s', inflight[p].key)
                /\ L1Payload(l1s', inflight[p].key) = inflight[p].data
                /\ L2Payload(l2s', inflight[p].key) = inflight[p].data
      ]_vars

\* A Set that nothing overlapped has returned after another goroutine's Set
\* of another value, and both tiers hold its payload.
C37_Witness ==
    \E p \in Procs : \E q \in Procs \ {p} :
        /\ Returned(p, "Set") /\ inflight[p].alone
        /\ Returned(q, "Set") /\ inflight[q].key = inflight[p].key
        /\ inflight[q].data # inflight[p].data
        /\ L1Holds(l1s, inflight[p].key) /\ L2Holds(l2s, inflight[p].key)
        /\ L1Payload(l1s, inflight[p].key) = inflight[p].data
        /\ L2Payload(l2s, inflight[p].key) = inflight[p].data

----------------------------------------------------------------------------
(* C38 *)

\* C38: a Set that returns an error leaves both tiers as they were; a Set
\* that targeted both tiers and returns nil has stored the payload of its
\* value in L1 or in L2.
C38_SetErrorMeansNoChange ==
    [][last'.op = "Set" =>
            /\ last'.err # NilErr => (l1s' = l1s /\ l2s' = l2s)
            /\ (last'.err = NilErr /\ Len(calls') = 2) =>
                    LET data == Marshal(last'.value).data
                    IN  \/ /\ L1Holds(l1s', last'.key)
                           /\ L1Payload(l1s', last'.key) = data
                           /\ calls'[1].err = NilErr
                        \/ /\ L2Holds(l2s', last'.key)
                           /\ L2Payload(l2s', last'.key) = data
                           /\ calls'[2].err = NilErr
      ]_vars

\* A Set to both tiers whose two writes failed has returned the combined
\* error, and both tiers still hold a payload other than that of its value.
C38_Witness ==
    /\ last.op = "Set" /\ Encodable(last.value)
    /\ Trace = << <<"L1", "Set">>, <<"L2", "Set">> >>
    /\ last.err = BothFailed(calls[1].err, calls[2].err)
    /\ calls[1].err # NilErr /\ calls[2].err # NilErr
    /\ L1Holds(l1s, last.key) /\ L1Payload(l1s, last.key) # Marshal(last.value).data
    /\ L2Holds(l2s, last.key) /\ L2Payload(l2s, last.key) # Marshal(last.value).data

----------------------------------------------------------------------------
(* internal/cache: Set *)

\* Mutant: both writes are attempted and an error is returned only when both
\* failed.
InternalSetRun_WritesBoth(inst, s1, s2, t, key, value, opts, f1, f2) ==
    LET res(err, st1, st2, cl) == [err |-> err, l1s |-> st1, l2s |-> st2, calls |-> cl]
        enc == Marshal(value)
        ttl == normalize(opts, inst.l1DefaultTTL, inst.l2DefaultTTL)
        lv == applyEndpointLevelOverrides(opts, determineCacheLevel(inst.mode)[1],
                                                determineCacheLevel(inst.mode)[2])
        w == SetWrites(s1, s2, t, key, enc.data, ttl[1], ttl[2], lv[1], lv[2], f1, f2)
    IN  IF inst.nil THEN res(ErrNotInitialized, s1, s2, <<>>)
        ELSE IF OverrideRejected(inst, opts) THEN res(ErrOverridesNotAllowed, s1, s2, <<>>)
        ELSE IF enc.err # NilErr THEN res(enc.err, s1, s2, <<>>)
        ELSE IF lv[1] /\ ~inst.l1 THEN res(ErrL1NotConfigured, s1, s2, <<>>)
        ELSE IF lv[2] /\ ~inst.l2 THEN res(ErrL2NotConfigured, s1, s2, <<>>)
        ELSE res(SetError(lv[1], lv[2], w.l1Err, w.l2Err), w.l1s, w.l2s, w.calls)

\* Set(ctx, key, value, opts): the targets are the mode's with the overrides
\* applied; L1 is written first, and the first failing write is returned at
\* once. There is no check that a tier is targeted.
InternalSetRun(inst, s1, s2, t, key, value, opts, f1, f2) ==
    LET res(err, st1, st2, cl) == [err |-> err, l1s |-> st1, l2s |-> st2, calls |-> cl]
        enc == Marshal(value)
        l1TTL == IF opts.L1TTL <= 0 THEN inst.l1DefaultTTL ELSE opts.L1TTL
        l2TTL == IF opts.L2TTL <= 0 THEN inst.l2DefaultTTL ELSE opts.L2TTL
        modeL1 == inst.mode \in {ModeBothLevels, ModeL1Only}
        modeL2 == inst.mode \in {ModeBothLevels, ModeL2Only}
        targetL1 == IF opts.TargetL1 # NilPtr THEN opts.TargetL1[1] ELSE modeL1
        targetL2 == IF opts.TargetL2 # NilPtr THEN opts.TargetL2[1] ELSE modeL2
        w1 == IF targetL1 THEN BigCacheSet(s1, key, enc.data, l1TTL, t, f1)
              ELSE [err |-> NilErr, store |-> s1]
        c1 == IF targetL1 THEN <<Call("L1", "Set", key, enc.data, l1TTL, w1.err)>> ELSE <<>>
        w2 == IF targetL2 THEN RedisSet(s2, key, enc.data, l2TTL, t, f2)
              ELSE [err |-> NilErr, store |-> s2]
        c2 == IF targetL2 THEN c1 \o <<Call("L2", "Set", key, enc.data, l2TTL, w2.err)>> ELSE c1
    IN  IF inst.nil THEN res(ErrNotInitialized, s1, s2, <<>>)
        ELSE IF ~inst.allowOverrides /\ (opts.TargetL1 # NilPtr \/ opts.TargetL2 # NilPtr)
             THEN res(ErrOverridesNotAllowed, s1, s2, <<>>)
        ELSE IF enc.err # NilErr THEN res(enc.err, s1, s2, <<>>)
        ELSE IF targetL1 /\ ~inst.l1 THEN res(ErrL1NotConfigured, s1, s2, <<>>)
        ELSE IF targetL2 /\ ~inst.l2 THEN res(ErrL2NotConfigured, s1, s2, <<>>)
        ELSE IF w1.err # NilErr THEN res(w1.err, w1.store, s2, c1)
        ELSE IF w2.err # NilErr THEN res(w2.err, w1.store, w2.store, c2)
        ELSE res(NilErr, w1.store, w2.store, c2)

InternalSet(key, value, opts, f1, f2) ==
    LET r == InternalSetRun(m, l1s, l2s, now, key, value, opts, f1, f2)
    IN  /\ l1s' = r.l1s
        /\ l2s' = r.l2s
        /\ last' = Result("internal.Set", key, value, opts, FALSE, NoValue, r.err)
        /\ calls' = r.calls
        /\ UNCHANGED <<m, now, written, inflight, stats, hits, snap>>

\* The tiers are filled and emptied directly, as the tests do, and read and
\* written through the instance.
NextInternal ==
    \/ Tick
    \/ \E key \in Keys, value \in InternalPayloads, ttl \in InternalTTLs :
            L1Set(key, value, ttl, NilErr)
    \/ \E key \in Keys, value \in InternalPayloads, ttl \in InternalTTLs :
            L2Set(key, value, ttl, NilErr)
    \/ \E key \in Keys : L1Delete(key, NilErr)
    \/ \E key \in Keys : L2Delete(key, NilErr)
    \/ \E key \in Keys, f \in GetFaults : InternalGet(key, f[1], f[2], f[3])
    \/ \E key \in Keys, opts \in TargetOptions, f1 \in L1Outcomes, f2 \in L2Outcomes :
            InternalSet(key, StrA, opts, f1, f2)

SpecInternal == InitInternal /\ [][NextInternal]_vars

----------------------------------------------------------------------------
(* C39 *)

\* The options under which the internal Set targets both tiers.
TargetsBoth(opts) == WantsL1(opts) /\ WantsL2(opts)

\* C39: in internal/cache, for a Set that targets both tiers of a two-tier
\* instance: when the L1 write fails, Set returns L1's error after that one
\* call and both tiers are as they were; when the L1 write succeeds and the
\* L2 write fails, Set returns L2's error, L1 stores the new payload and L2
\* is as it was.
C39_InternalSetStopsAtFirstFailure ==
    \A key \in Keys, opts \in TargetOptions, f2 \in L2Outcomes :
        (BothTiers /\ TargetsBoth(opts)) =>
            LET a == InternalSetRun(m, l1s, l2s, now, key, StrA, opts, ErrL1, f2)
                b == InternalSetRun(m, l1s, l2s, now, key, StrA, opts, NilErr, ErrL2)
                ttl == normalize(opts, m.l1DefaultTTL, m.l2DefaultTTL)
            IN  /\ a.err = ErrL1
                /\ Len(a.calls) = 1 /\ a.calls[1].tier = "L1" /\ a.calls[1].fn = "Set"
                /\ a.l1s = l1s /\ a.l2s = l2s
                /\ b.err = ErrL2
                /\ Len(b.calls) = 2 /\ b.calls[2].tier = "L2" /\ b.calls[2].fn = "Set"
                /\ b.l1s = MapPut(l1s, key, encodeEntry(Marshal(StrA).data, ttl[1], now))
                /\ b.l2s = l2s

\* An internal Set whose L1 write succeeded and whose L2 write failed has
\* returned L2's error: L1 holds the new payload and L2 does not.
C39_Witness ==
    /\ last.op = "internal.Set" /\ last.err = ErrL2
    /\ Trace = << <<"L1", "Set">>, <<"L2", "Set">> >>
    /\ calls[1].err = NilErr
    /\ L1Holds(l1s, last.key)
    /\ L1Payload(l1s, last.key) = Marshal(last.value).data
    /\ L2Holds(l2s, last.key)
    /\ L2Payload(l2s, last.key) # Marshal(last.value).data

----------------------------------------------------------------------------
(* internal/cache BigCache wrapper with its hit tracker. l1s is the store   *)
(* of the underlying bigcache, stats the tracker's map. hits counts, for    *)
(* each key, the Gets that returned a hit since Delete was last called for  *)
(* it. snap is the map the last Snapshot call handed to its caller.         *)

MaxHits == 2
MaxTrackTime == 2
TrackTTLs == {1}
TrackPayload == <<97>>

\* Mutant: a miss sets the key's count to 0.
recordMiss_ResetsCount(d, key) ==
    IF key = "" THEN d ELSE MapPut(d, key, 0)

recordHit(d, key) ==
    IF key = "" THEN d
    ELSE MapPut(d, key, (IF key \in DOMAIN d THEN d[key] ELSE 0) + 1)

recordMiss(d, key) ==
    IF key = "" THEN d
    ELSE IF key \in DOMAIN d THEN d
    ELSE MapPut(d, key, 0)

hitTrackerDelete(d, key) == MapDel(d, key)

\* snapshot copies the map: the caller's map is not the tracker's.
snapshot(d) == [taken |-> TRUE, alias |-> FALSE, data |-> d]

\* The frame of a goroutine inside a call of the wrapper: the step it makes
\* next and the key of the call. A goroutine back from a call is idle.
TrackFrame(pc, key) == [pc |-> pc, key |-> key]

InitTracker ==
    /\ m = NilCache
    /\ l1s = EmptyMap
    /\ l2s = EmptyMap
    /\ now = 0
    /\ last = Result("New", "", NoValue, NoOptions, FALSE, NoValue, NilErr)
    /\ calls = <<>>
    /\ written = NoRecord
    /\ inflight = NoCalls
    /\ stats = NoStats
    /\ hits = NoHits
    /\ snap = NoSnapshot

TrackTick ==
    /\ now < MaxTrackTime
    /\ now' = now + 1
    /\ UNCHANGED <<m, l1s, l2s, last, calls, written, inflight, stats, hits, snap>>

\* Get: b.cache.Get(key) and decodeEntry. f is the error of the cache other
\* than ErrEntryNotFound, returned without touching the tracker.
TrackGet(p, key, f) ==
    /\ Free(p)
    /\ LET pc == IF key \notin DOMAIN l1s THEN "RecordMiss"
                 ELSE IF ~decodeEntry(l1s[key], now).ok THEN "Purge"
                 ELSE "RecordHit"
       IN  IF f # NilErr
           THEN Goto(p, Idle)
           ELSE Goto(p, TrackFrame(pc, key))
    /\ UNCHANGED <<m, l1s, l2s, now, last, calls, written, stats, hits, snap>>

\* Get: _ = b.cache.Delete(key) of a record found expired.
TrackPurge(p) ==
    /\ At(p, "Purge")
    /\ l1s' = MapDel(l1s, inflight[p].key)
    /\ Goto(p, [inflight[p] EXCEPT !.pc = "RecordMiss"])
    /\ UNCHANGED <<m, l2s, now, last, calls, written, stats, hits, snap>>

\* Get: b.stats.recordMiss(key) and the return of a miss.
TrackRecordMiss(p) ==
    /\ At(p, "RecordMiss")
    /\ stats' = recordMiss(stats, inflight[p].key)
    /\ Goto(p, Idle)
    /\ UNCHANGED <<m, l1s, l2s, now, last, calls, written, hits, snap>>

\* Get: b.stats.recordHit(key) and the return of a hit.
TrackRecordHit(p) ==
    /\ At(p, "RecordHit")
    /\ hits[inflight[p].key] < MaxHits
    /\ stats' = recordHit(stats, inflight[p].key)
    /\ hits' = [hits EXCEPT ![inflight[p].key] = @ + 1]
    /\ Goto(p, Idle)
    /\ UNCHANGED <<m, l1s, l2s, now, last, calls, written, snap>>

\* Set: b.cache.Set(key, encodeEntry(value, ttl)); f is the cache's error.
TrackSet(p, key, ttl, f) ==
    /\ Free(p)
    /\ l1s' = BigCacheSet(l1s, key, TrackPayload, ttl, now, f).store
    /\ Goto(p, Idle)
    /\ UNCHANGED <<m, l2s, now, last, calls, written, stats, hits, snap>>

\* Delete: b.stats.delete(key), the first thing the call does.
TrackDelete(p, key) ==
    /\ Free(p)
    /\ stats' = hitTrackerDelete(stats, key)
    /\ hits' = [hits EXCEPT ![key] = 0]
    /\ Goto(p, TrackFrame("CacheDelete", key))
    /\ UNCHANGED <<m, l1s, l2s, now, last, calls, written, snap>>

\* Delete: b.cache.Delete(key); f is the cache's error, which is returned.
TrackCacheDelete(p, f) ==
    /\ At(p, "CacheDelete")
    /\ l1s' = BigCacheDelete(l1s, inflight[p].key, f).store
    /\ Goto(p, Idle)
    /\ UNCHANGED <<m, l2s, now, last, calls, written, stats, hits, snap>>

\* Mutant: Snapshot hands out the tracker's own map.
TrackSnapshot_ReturnsMap ==
    /\ snap' = [taken |-> TRUE, alias |-> TRUE, data |-> stats]
    /\ UNCHANGED <<m, l1s, l2s, now, last, calls, written, inflight, stats, hits>>

\* Snapshot: the copy made under the read lock.
TrackSnapshot ==
    /\ snap' = snapshot(stats)
    /\ UNCHANGED <<m, l1s, l2s, now, last, calls, written, inflight, stats, hits>>

\* The caller of Snapshot writes 7 for a key into the map it was handed. The
\* write reaches the tracker only if that map is the tracker's own.
TrackModifySnapshot(key) ==
    /\ snap.taken
    /\ snap' = [snap EXCEPT !.data = MapPut(snap.data, key, 7)]
    /\ stats' = IF snap.alias THEN MapPut(stats, key, 7) ELSE stats
    /\ UNCHANGED <<m, l1s, l2s, now, last, calls, written, inflight, hits>>

NextTracker ==
    \/ TrackTick
    \/ \E p \in Procs, key \in TrackKeys, f \in L1Outcomes : TrackGet(p, key, f)
    \/ \E p \in Procs : TrackPurge(p)
    \/ \E p \in Procs : TrackRecordMiss(p)
    \/ \E p \in Procs : TrackRecordHit(p)
    \/ \E p \in Procs, key \in TrackKeys, ttl \in TrackTTLs, f \in L1Outcomes :
            TrackSet(p, key, ttl, f)
    \/ \E p \in Procs, key \in TrackKeys : TrackDelete(p, key)
    \/ \E p \in Procs, f \in L1Outcomes : TrackCacheDelete(p, f)
    \/ TrackSnapshot
    \/ TrackModifySnapshot("k1")

SpecTracker == InitTracker /\ [][NextTracker]_vars

----------------------------------------------------------------------------
(* C40 *)

\* The count the tracker reports for a key: 0 for a key it does not track.
Count(d, key) == IF key \in DOMAIN d THEN d[key] ELSE 0

\* C40 as stated: for every key, the tracker's count is the number of Gets
\* that returned a hit for the key since Delete was last called for it.
C40_TrackerCountsEveryKey ==
    \A key \in TrackKeys : Count(stats, key) = hits[key]

\* C40: for every key other than the empty one, the tracker's count is the
\* number of Gets that returned a hit for the key since Delete was last
\* called for it, and the empty key is never tracked. The miss of a Get
\* registers its key with count 0 when it was not tracked and changes no
\* count. Delete removes its key's entry on entry, and its cache delete,
\* failing or not, leaves the tracker as it is. A write into the map that
\* Snapshot returned leaves the tracker as it is.
C40_TrackerCounts ==
    [][/\ \A key \in TrackKeys \ {""} : Count(stats', key) = hits'[key]
       /\ "" \notin DOMAIN stats'
       /\ \A p \in Procs :
            (inflight[p].pc = "RecordMiss" /\ inflight'[p] = Idle) =>
                /\ inflight[p].key # "" => inflight[p].key \in DOMAIN stats'
                /\ \A key \in TrackKeys : Count(stats', key) = Count(stats, key)
                /\ DOMAIN stats' \ {inflight[p].key} = DOMAIN stats \ {inflight[p].key}
       /\ \A p \in Procs :
            (Free(p) /\ inflight'[p].pc = "CacheDelete") =>
                inflight'[p].key \notin DOMAIN stats'
       /\ \A p \in Procs :
            (inflight[p].pc = "CacheDelete" /\ inflight'[p] = Idle) => stats' = stats
       /\ (snap.taken /\ snap'.data # snap.data /\ snap'.data = MapPut(snap.data, "k1", 7)) =>
                stats' = stats
      ]_vars

\* Two Gets of k1 have hit since its last Delete, the tracker counts 2 for
\* it, and the caller of Snapshot has overwritten k1 in the map it was handed.
C40_Witness ==
    /\ "k1" \in DOMAIN stats /\ stats["k1"] = 2 /\ hits["k1"] = 2
    /\ snap.taken /\ "k1" \in DOMAIN snap.data /\ snap.data["k1"] = 7
    /\ \A p \in Procs : Free(p)

====
